---- MODULE Spec2Model ----
(***************************************************************************)
(* A model of the scan-chain engine of chip_test_ec:                       *)
(*   - FPGABase (backend/fpga/base.py): the registry of scan chains, its   *)
(*     setters, update_scan and the callback fan-out, with FPGAFake's      *)
(*     read-only predicate;                                                *)
(*   - Scan (backend/scan/core.py): the flat scan chain, its byte codec    *)
(*     and write_twice.                                                    *)
(* The program instantiates one of the two backends; `backend` says which. *)
(* `last` is a history variable: what the last call did (its arguments,    *)
(* the values before it, the transport calls it made, the callbacks it     *)
(* invoked and how it ended).                                              *)
(***************************************************************************)
EXTENDS Integers, Sequences, FiniteSets, TLC

VARIABLES
    backend,          \* the class the program instantiated: "FPGABase" or "Scan"
    fake_scan,        \* FPGABase._fake_scan
    check_scan,       \* FPGABase._check_scan
    chain_value,      \* FPGABase._chain_value: chain -> bus -> value
    callbacks,        \* FPGABase._callbacks
    scan_file,        \* Scan: the lines of the scan chain file (name, default, numbits)
    has_fpga,         \* Scan: self._fpga is not None
    read_pre_bytes,   \* Scan._read_pre_bytes
    read_post_bytes,  \* Scan._read_post_bytes
    scan_value,       \* Scan._value: bus -> value
    pre_data,         \* Scan._pre_data
    post_data,        \* Scan._post_data
    scan_callbacks,   \* Scan._callbacks
    last,             \* history: the last call made on the object
    search,           \* the search the worker thread runs: "none", "EyePlotBase"
                      \* or "TracePlotBase"
    cfg,              \* the search's configuration and the hardware's behaviour
    stop,             \* WorkerThread.stop
    pc,               \* the worker's position in run and the methods it calls
    loc,              \* the local variables of run and of the methods it calls
    hw_delay,         \* the delay the hardware is set to
    hw_offset,        \* the offset the hardware is set to
    hw_log,           \* history: the hardware calls made, in order
    sent,             \* history: the messages handed to thread.send, in order
    checked,          \* history: the worker's last step was a test of the stop
                      \* flag that found it clear
    unchecked_calls,  \* history: oracle calls not directly preceded by such a test
    calls_after_stop, \* history: oracle calls begun after the flag was set
    thread_at                \* where the GUI thread and the worker thread are in
                      \* update_scan, and with which chain and values

fpga_vars == <<fake_scan, check_scan, chain_value, callbacks>>

scan_vars == <<scan_file, has_fpga, read_pre_bytes, read_post_bytes, scan_value, pre_data,
               post_data, scan_callbacks>>

search_vars == <<search, cfg, stop, pc, loc, hw_delay, hw_offset, hw_log, sent,
                 checked, unchecked_calls, calls_after_stop>>

\* the variables the registry and the flat scan chain do not touch
ext_vars == <<search_vars, thread_at>>

vars == <<backend, fpga_vars, scan_vars, last, ext_vars>>

\* the threads that hold the Controller and its FPGABase
Threads == {"gui", "worker"}

\* a thread outside update_scan
IdleAt == [pc |-> "idle", chain |-> "", value |-> <<>>, todo |-> <<>>]

\* no thread is in update_scan
IdleThreads == thread_at = [th \in Threads |-> IdleAt]

\* no search was started
IdleSearch ==
    /\ search = "none"
    /\ cfg = <<>>
    /\ stop = FALSE
    /\ pc = "idle"
    /\ loc = <<>>
    /\ hw_delay = 0
    /\ hw_offset = 0
    /\ hw_log = <<>>
    /\ sent = <<>>
    /\ checked = FALSE
    /\ unchecked_calls = 0
    /\ calls_after_stop = 0

(***************************************************************************)
(* Bounds of the model.                                                    *)
(***************************************************************************)
\* the most callbacks that are registered on one object
MaxCallbacks == 2
\* a setter is tried, on a bus of n bits, with every value of the bus and
\* with 2^n - 1 + MaxSetExcess
MaxSetExcess == 1
\* a transport may return, for a bus of n bits, the value
\* 2^n - 1 + MaxReadExcess
MaxReadExcess == 1
\* the most entries of a val_dict
MaxDict == 2
\* a Scan is built with pre_bytes and post_bytes 0 or MaxExtraBytes
MaxExtraBytes == 1
\* the codec is tried with every value of a bus of up to MaxFullWidth bits,
\* and with the least, the greatest and two more values of a wider bus
MaxFullWidth == 3

(***************************************************************************)
(* Helpers on sequences.                                                   *)
(***************************************************************************)
Range(s) == {s[i] : i \in 1..Len(s)}

SeqsUpTo(S, n) == UNION {[1..k -> S] : k \in 0..n}

\* the sequences of 1..n pairs <<key, value>> with pairwise distinct keys:
\* a Python dict in its iteration order
Dicts(K, V, n) ==
    {d \in SeqsUpTo(K \X V, n) :
        /\ Len(d) >= 1
        /\ \A i, j \in 1..Len(d) : i # j => d[i][1] # d[j][1]}

(***************************************************************************)
(* The scan chain definition file the registry is built from              *)
(* (FPGABase.__init__): a scan chain of two buses and a read-only chain    *)
(* of IO pins.                                                             *)
(***************************************************************************)
ChainNames == {"ctrl", "pins"}

\* self._chain_order: the buses of each chain, MSB bus first
chain_order == [c \in ChainNames |->
                  IF c = "ctrl" THEN <<"en", "gain">> ELSE <<"io">>]

BusNames(c) == Range(chain_order[c])

\* self._chain_blen: the number of bits of each bus
chain_blen == [c \in ChainNames |->
                 IF c = "ctrl" THEN [b \in {"en", "gain"} |-> IF b = "en" THEN 1 ELSE 2]
                               ELSE [b \in {"io"} |-> 1]]

\* chain_info.get('is_pin', False)
is_pin(chain_name) == chain_name = "pins"

\* FPGAFake.is_scan_read_only: the chain's attribute read_only, whatever the bus
is_scan_read_only(chain_name, bus_name) == chain_name = "pins"

\* bus_info.get('value', 0): the defaults of the definition file
DefaultValue == [c \in ChainNames |-> [b \in BusNames(c) |-> 0]]

\* a bus name that no chain has
UnknownBus == "zz"

\* the callables a client may register
CallbackFuns == {"f", "g"}

\* the callables add_callback is tried with: the callables are
\* interchangeable, so the first one registered is taken to be "f"
NextFuns(cbs) == IF cbs = <<>> THEN {"f"} ELSE CallbackFuns

(***************************************************************************)
(* The history record: op, the call; chain, bus, value, check, its         *)
(* arguments; before, the values before the call; sent and output, the     *)
(* list handed to the transport and the list it returned; io, the          *)
(* transport calls made, in order; notified, the callbacks invoked, in     *)
(* order, each with its argument and the values it could see; raised, the  *)
(* position of the callback that raised (0: none); outcome, "ok" or the    *)
(* error the call raised; first, what the first read_ints of a            *)
(* write_twice returned.                                                   *)
(***************************************************************************)
NoCall == [op |-> "init", chain |-> "", bus |-> "", value |-> 0, check |-> FALSE,
           outcome |-> "ok", before |-> <<>>, sent |-> <<>>, output |-> <<>>,
           io |-> <<>>, notified |-> <<>>, raised |-> 0, first |-> <<>>]

(***************************************************************************)
(* FPGABase.set_scan.                                                      *)
(***************************************************************************)
IllegalAboveLimit(value, num_bits) == value < 0 \/ value > 2^num_bits

\* line 428: the test that rejects a value
IllegalScanValue(value, num_bits) == value < 0 \/ value >= 2^num_bits

StoreInChain(cv, chain_name, bus_name, value) ==
    [cv EXCEPT ![chain_name] = [b \in DOMAIN cv[chain_name] |-> value]]

\* line 434: the registry after chain_table[bus_name] = value
StoreScan(cv, chain_name, bus_name, value) ==
    [cv EXCEPT ![chain_name][bus_name] = value]

\* set_scan as a function of the registry: the registry after the call, the
\* transport calls and callbacks it made (none) and how it ended
SetScan(cv, chain_name, bus_name, value) ==
    LET r0 == [chain_value |-> cv, outcome |-> "ok", io |-> <<>>, notified |-> <<>>]
    IN IF bus_name \notin DOMAIN cv[chain_name]
       THEN [r0 EXCEPT !.outcome = "LookupError"]
       ELSE IF IllegalScanValue(value, chain_blen[chain_name][bus_name])
       THEN [r0 EXCEPT !.outcome = "RangeError"]
       ELSE [r0 EXCEPT !.chain_value = StoreScan(cv, chain_name, bus_name, value)]

\* the values set_scan is tried with on a bus
SetValues(chain_name, bus_name) ==
    IF bus_name = UnknownBus THEN {0}
    ELSE LET top == 2^chain_blen[chain_name][bus_name] - 1
         IN (-1 .. top) \cup {top + MaxSetExcess}

set_scan ==
    /\ backend = "FPGABase"
    /\ \E chain_name \in ChainNames :
       \E bus_name \in BusNames(chain_name) \cup {UnknownBus} :
       \E value \in SetValues(chain_name, bus_name) :
         \E r \in {SetScan(chain_value, chain_name, bus_name, value)} :
           /\ chain_value' = r.chain_value
           /\ last' = [NoCall EXCEPT !.op = "set_scan", !.chain = chain_name,
                          !.bus = bus_name, !.value = value,
                          !.outcome = r.outcome, !.before = chain_value,
                          !.io = r.io, !.notified = r.notified]
    /\ UNCHANGED ext_vars
    /\ UNCHANGED <<backend, fake_scan, check_scan, callbacks, scan_vars>>

(***************************************************************************)
(* FPGABase.add_callback.                                                  *)
(***************************************************************************)
add_callback ==
    /\ backend = "FPGABase"
    /\ Len(callbacks) < MaxCallbacks
    /\ \E fun \in NextFuns(callbacks) :
         /\ callbacks' = Append(callbacks, fun)
         /\ last' = [NoCall EXCEPT !.op = "add_callback", !.before = chain_value]
    /\ UNCHANGED ext_vars
    /\ UNCHANGED <<backend, fake_scan, check_scan, chain_value, scan_vars>>

(***************************************************************************)
(* FPGABase.set_scan_vals: set_scan for every item of val_dict, in the     *)
(* dict's order; the first set_scan that raises ends the call, the items   *)
(* before it staying set.                                                  *)
(***************************************************************************)
RECURSIVE SetScanVals(_, _, _)
SetScanVals(cv, chain_name, val_dict) ==
    IF val_dict = <<>>
    THEN [chain_value |-> cv, outcome |-> "ok", io |-> <<>>, notified |-> <<>>]
    ELSE LET r == SetScan(cv, chain_name, Head(val_dict)[1], Head(val_dict)[2]) IN
         IF r.outcome # "ok" THEN r
         ELSE SetScanVals(r.chain_value, chain_name, Tail(val_dict))

\* the width of the widest bus of the definition file
MaxBits ==
    LET widths == UNION {{chain_blen[c][b] : b \in BusNames(c)} : c \in ChainNames}
    IN CHOOSE m \in widths : \A x \in widths : x <= m

\* the values a val_dict is tried with: 1 is legal for every bus, 2^MaxBits
\* for none
DictVals == {1, 2^MaxBits}

\* the val_dicts set_scan_vals is tried with, for each chain
ValDicts == [c \in ChainNames |-> Dicts(BusNames(c), DictVals, MaxDict)]

set_scan_vals ==
    /\ backend = "FPGABase"
    /\ \E chain_name \in ChainNames :
       \E val_dict \in ValDicts[chain_name] :
         \E r \in {SetScanVals(chain_value, chain_name, val_dict)} :
           /\ chain_value' = r.chain_value
           /\ last' = [NoCall EXCEPT !.op = "set_scan_vals", !.chain = chain_name,
                          !.sent = val_dict, !.outcome = r.outcome,
                          !.before = chain_value, !.io = r.io,
                          !.notified = r.notified]
    /\ UNCHANGED ext_vars
    /\ UNCHANGED <<backend, fake_scan, check_scan, callbacks, scan_vars>>

(***************************************************************************)
(* FPGABase.update_scan.                                                   *)
(***************************************************************************)
\* lines 286-291: the values of the chain's buses, MSB bus first
ValueList(cv, chain_name) ==
    [i \in 1..Len(chain_order[chain_name]) |-> cv[chain_name][chain_order[chain_name][i]]]

TransportEvenIfFake(fake, chain_name, value) ==
    IF is_pin(chain_name)
    THEN <<[call |-> "update_pins", chain |-> chain_name, value |-> value]>>
    ELSE <<[call |-> "scan_in_and_read_out", chain |-> chain_name, value |-> value]>>

\* lines 293-301: the transport call update_scan makes, if any
TransportCalls(fake, chain_name, value) ==
    IF fake THEN <<>>
    ELSE IF is_pin(chain_name)
    THEN <<[call |-> "update_pins", chain |-> chain_name, value |-> value]>>
    ELSE <<[call |-> "scan_in_and_read_out", chain |-> chain_name, value |-> value]>>

\* lines 293-301: output is value itself in fake scan mode, and what the
\* transport returned otherwise
ScanOutput(fake, value, returned) == IF fake THEN value ELSE returned

CheckAllBuses(chain_name, in_list, out_list) ==
    \A i \in 1..Len(in_list) : in_list[i] = out_list[i]

\* check_scan_success, TRUE when it returns and FALSE when it raises: every
\* bus that is not read-only reads back the value scanned in
check_scan_success(chain_name, in_list, out_list) ==
    \A i \in 1..Len(in_list) :
        is_scan_read_only(chain_name, chain_order[chain_name][i])
            \/ in_list[i] = out_list[i]

LengthShorter(value, output) == Len(value) > Len(output)

\* lines 303-306: does update_scan raise for the length of the output?
LengthMismatch(value, output) == Len(value) # Len(output)

\* lines 312-313: the registry after the output is written back
WriteBack(cv, chain_name, output) ==
    [cv EXCEPT ![chain_name] =
        [b \in DOMAIN cv[chain_name] |->
            LET i == CHOOSE k \in 1..Len(chain_order[chain_name]) :
                         chain_order[chain_name][k] = b
            IN output[i]]]

FanOutOnce(cbs, arg, seen, raise_at) ==
    LET n == IF raise_at = 0 THEN Len(cbs) ELSE raise_at
        firsts == SelectSeq([i \in 1..n |-> i],
                            LAMBDA i : \A j \in 1..(i - 1) : cbs[j] # cbs[i])
    IN [k \in 1..Len(firsts) |-> [fun |-> cbs[firsts[k]], arg |-> arg, seen |-> seen]]

\* lines 316-317 (and Scan.write_twice, lines 252-253): the calls of the
\* callbacks, in order, each with its argument and the values it can see.
\* raise_at = 0: no callback raises; otherwise the raise_at-th callback
\* raises and the loop ends with it.
FanOut(cbs, arg, seen, raise_at) ==
    LET n == IF raise_at = 0 THEN Len(cbs) ELSE raise_at
    IN [i \in 1..n |-> [fun |-> cbs[i], arg |-> arg, seen |-> seen]]

UpdateCommitFirst(cv, cbs, fake, always, chain_name, check, returned, raise_at) ==
    LET value == ValueList(cv, chain_name)
        output == ScanOutput(fake, value, returned)
        r0 == [chain_value |-> cv, outcome |-> "ok", sent |-> value, output |-> output,
               io |-> TransportCalls(fake, chain_name, value), notified |-> <<>>]
    IN IF LengthMismatch(value, output)
       THEN [r0 EXCEPT !.outcome = "LengthError"]
       ELSE IF (check \/ always) /\ ~check_scan_success(chain_name, value, output)
       THEN [r0 EXCEPT !.outcome = "ConsistencyError",
                       !.chain_value = WriteBack(cv, chain_name, output)]
       ELSE LET cv2 == WriteBack(cv, chain_name, output) IN
            [r0 EXCEPT !.chain_value = cv2,
                       !.notified = FanOut(cbs, chain_name, cv2, raise_at),
                       !.outcome = IF raise_at = 0 THEN "ok" ELSE "CallbackError"]

UpdateNotifyOnError(cv, cbs, fake, always, chain_name, check, returned, raise_at) ==
    LET value == ValueList(cv, chain_name)
        output == ScanOutput(fake, value, returned)
        r0 == [chain_value |-> cv, outcome |-> "ok", sent |-> value, output |-> output,
               io |-> TransportCalls(fake, chain_name, value), notified |-> <<>>]
    IN IF LengthMismatch(value, output)
       THEN [r0 EXCEPT !.outcome = "LengthError"]
       ELSE IF (check \/ always) /\ ~check_scan_success(chain_name, value, output)
       THEN [r0 EXCEPT !.outcome = "ConsistencyError",
                       !.notified = FanOut(cbs, chain_name, cv, 0)]
       ELSE LET cv2 == WriteBack(cv, chain_name, output) IN
            [r0 EXCEPT !.chain_value = cv2,
                       !.notified = FanOut(cbs, chain_name, cv2, raise_at),
                       !.outcome = IF raise_at = 0 THEN "ok" ELSE "CallbackError"]

UpdateUndoOnRaise(cv, cbs, fake, always, chain_name, check, returned, raise_at) ==
    LET value == ValueList(cv, chain_name)
        output == ScanOutput(fake, value, returned)
        r0 == [chain_value |-> cv, outcome |-> "ok", sent |-> value, output |-> output,
               io |-> TransportCalls(fake, chain_name, value), notified |-> <<>>]
    IN IF LengthMismatch(value, output)
       THEN [r0 EXCEPT !.outcome = "LengthError"]
       ELSE IF (check \/ always) /\ ~check_scan_success(chain_name, value, output)
       THEN [r0 EXCEPT !.outcome = "ConsistencyError"]
       ELSE LET cv2 == WriteBack(cv, chain_name, output) IN
            [r0 EXCEPT !.chain_value = IF raise_at = 0 THEN cv2 ELSE cv,
                       !.notified = FanOut(cbs, chain_name, cv2, raise_at),
                       !.outcome = IF raise_at = 0 THEN "ok" ELSE "CallbackError"]

\* an update_scan that checks only when the caller asks for it
UpdateCheckWhenAsked(cv, cbs, fake, always, chain_name, check, returned, raise_at) ==
    LET value == ValueList(cv, chain_name)
        output == ScanOutput(fake, value, returned)
        r0 == [chain_value |-> cv, outcome |-> "ok", sent |-> value, output |-> output,
               io |-> TransportCalls(fake, chain_name, value), notified |-> <<>>]
    IN IF LengthMismatch(value, output)
       THEN [r0 EXCEPT !.outcome = "LengthError"]
       ELSE IF check /\ ~check_scan_success(chain_name, value, output)
       THEN [r0 EXCEPT !.outcome = "ConsistencyError"]
       ELSE LET cv2 == WriteBack(cv, chain_name, output) IN
            [r0 EXCEPT !.chain_value = cv2,
                       !.notified = FanOut(cbs, chain_name, cv2, raise_at),
                       !.outcome = IF raise_at = 0 THEN "ok" ELSE "CallbackError"]

\* update_scan as a function of the registry cv, the callbacks cbs, the
\* flags fake (_fake_scan) and always (_check_scan), its arguments, the list
\* the transport returns and the callback that raises (0: none): the length
\* test, then the check, then the write-back, then the callbacks
UpdateScan(cv, cbs, fake, always, chain_name, check, returned, raise_at) ==
    LET value == ValueList(cv, chain_name)
        output == ScanOutput(fake, value, returned)
        r0 == [chain_value |-> cv, outcome |-> "ok", sent |-> value, output |-> output,
               io |-> TransportCalls(fake, chain_name, value), notified |-> <<>>]
    IN IF LengthMismatch(value, output)
       THEN [r0 EXCEPT !.outcome = "LengthError"]
       ELSE IF (check \/ always) /\ ~check_scan_success(chain_name, value, output)
       THEN [r0 EXCEPT !.outcome = "ConsistencyError"]
       ELSE LET cv2 == WriteBack(cv, chain_name, output) IN
            [r0 EXCEPT !.chain_value = cv2,
                       !.notified = FanOut(cbs, chain_name, cv2, raise_at),
                       !.outcome = IF raise_at = 0 THEN "ok" ELSE "CallbackError"]

\* what scan_in_and_read_out / update_pins may return for a chain: the list
\* scanned in; that list with one bus read back as the next value of its
\* range, or as a value above its range (2^nbits - 1 + MaxReadExcess); a
\* list one shorter or one longer than the list scanned in
TransportReturns(chain_name, value) ==
    LET n == Len(chain_order[chain_name])
        lim(i) == 2^chain_blen[chain_name][chain_order[chain_name][i]]
    IN {value, SubSeq(value, 1, n - 1), Append(value, 0)}
         \cup {[value EXCEPT ![i] = (value[i] + 1) % lim(i)] : i \in 1..n}
         \cup {[value EXCEPT ![i] = lim(i) - 1 + MaxReadExcess] : i \in 1..n}

TransportRetried(cv, fake, chain_name) ==
    LET value == ValueList(cv, chain_name)
    IN [chain_value |-> cv, outcome |-> "TransportError", sent |-> value,
        output |-> <<>>,
        io |-> TransportCalls(fake, chain_name, value) \o TransportCalls(fake, chain_name, value),
        notified |-> <<>>]

\* lines 298 and 301: update_pins or scan_in_and_read_out raises.  Nothing
\* catches the error, so it leaves update_scan from the call: no value is
\* assigned to output and lines 303-317 are not reached.
TransportRaises(cv, fake, chain_name) ==
    LET value == ValueList(cv, chain_name)
    IN [chain_value |-> cv, outcome |-> "TransportError", sent |-> value,
        output |-> <<>>, io |-> TransportCalls(fake, chain_name, value),
        notified |-> <<>>]

\* raised is the callback that raised, or the transport call that did
update_scan ==
    /\ backend = "FPGABase"
    /\ \E chain_name \in ChainNames, check \in BOOLEAN :
       \E r \in {UpdateScan(chain_value, callbacks, fake_scan, check_scan,
                            chain_name, check, returned, raise_at) :
                   returned \in IF fake_scan THEN {<<>>}
                                ELSE TransportReturns(chain_name,
                                                      ValueList(chain_value, chain_name)),
                   raise_at \in 0..Len(callbacks)}
                  \cup (IF fake_scan THEN {}
                        ELSE {TransportRaises(chain_value, fake_scan, chain_name)}) :
         /\ chain_value' = r.chain_value
         /\ last' = [NoCall EXCEPT !.op = "update_scan", !.chain = chain_name,
                        !.check = check, !.outcome = r.outcome,
                        !.before = chain_value, !.sent = r.sent,
                        !.output = r.output, !.io = r.io, !.notified = r.notified,
                        !.raised = IF r.outcome = "CallbackError" THEN Len(r.notified)
                                   ELSE IF r.outcome = "TransportError" THEN Len(r.io)
                                   ELSE 0]
    /\ UNCHANGED ext_vars
    /\ UNCHANGED <<backend, fake_scan, check_scan, callbacks, scan_vars>>

(***************************************************************************)
(* Scan (backend/scan/core.py).                                            *)
(***************************************************************************)
\* the scan chain file Scan.__init__ reads: one line name, default, numbits
\* per bus
ScanFile == <<[name |-> "a", defval |-> 0, numbits |-> 1],
              [name |-> "b", defval |-> 0, numbits |-> 2]>>

\* the line of the file that defines a bus
LineOf(file, name) == CHOOSE i \in 1..Len(file) : file[i].name = name

\* self._order
scan_order(file) == [i \in 1..Len(file) |-> file[i].name]

\* self._numbits[name]
scan_numbits(file, name) == file[LineOf(file, name)].numbits

\* self._index[name]: the sum of the widths of the buses before it
RECURSIVE WidthSum(_, _)
WidthSum(file, k) == IF k = 0 THEN 0 ELSE WidthSum(file, k - 1) + file[k].numbits

scan_index(file, name) == WidthSum(file, LineOf(file, name) - 1)

\* self._nbits and self._nbytes = -(-self._nbits // 8)
scan_nbits(file) == WidthSum(file, Len(file))

scan_nbytes(file) == (scan_nbits(file) + 7) \div 8

\* the values of the file's defaults
ScanDefaults(file) ==
    [n \in Range(scan_order(file)) |-> file[LineOf(file, n)].defval]

(***************************************************************************)
(* The byte codec.  A bit string is a sequence of 0s and 1s, first         *)
(* character first.                                                        *)
(***************************************************************************)
\* the binary digits of num >= 0, most significant first
RECURSIVE BinDigits(_)
BinDigits(num) == IF num < 2 THEN <<num>> ELSE Append(BinDigits(num \div 2), num % 2)

\* np.binary_repr(num, width) for num >= 0: the digits, zero-filled on the
\* left up to width; digits that do not fit in width are returned as they are
binary_repr(num, width) ==
    LET d == BinDigits(num) IN
      IF Len(d) >= width THEN d ELSE [i \in 1..(width - Len(d)) |-> 0] \o d

\* int(bstr, 2)
RECURSIVE int2(_)
int2(bstr) ==
    IF bstr = <<>> THEN 0
    ELSE 2 * int2(SubSeq(bstr, 1, Len(bstr) - 1)) + bstr[Len(bstr)]

\* a to_byte_array that concatenates the buses' bit strings last bus first
RECURSIVE ChainBitsReversed(_, _, _)
ChainBitsReversed(file, value, k) ==
    IF k = 0 THEN <<>>
    ELSE binary_repr(value[file[k].name], file[k].numbits)
           \o ChainBitsReversed(file, value, k - 1)

\* lines 192-194: the buses' bit strings, concatenated in the order of the file
RECURSIVE ChainBits(_, _, _)
ChainBits(file, value, k) ==
    IF k = 0 THEN <<>>
    ELSE ChainBits(file, value, k - 1)
           \o binary_repr(value[file[k].name], file[k].numbits)

\* line 196: [int(bstr[i:i + 8], 2) for i in range(0, len(bstr), 8)]
BytesOf(bstr) ==
    [k \in 1..((Len(bstr) + 7) \div 8) |->
        int2(SubSeq(bstr, 8 * (k - 1) + 1,
                    IF 8 * k < Len(bstr) THEN 8 * k ELSE Len(bstr)))]

to_byte_array(file, value) == BytesOf(ChainBits(file, value, Len(file)))

\* lines 211-213: the bytes' 8-character bit strings, concatenated
RECURSIVE ByteBits(_)
ByteBits(barr) ==
    IF barr = <<>> THEN <<>>
    ELSE binary_repr(Head(barr), 8) \o ByteBits(Tail(barr))

\* a _from_byte_array that only rejects a list that is too short
BarrTooShort(file, barr) == Len(barr) < scan_nbytes(file)

\* lines 206-209: does _from_byte_array raise for the length of barr?
BarrLengthMismatch(file, barr) == Len(barr) # scan_nbytes(file)

\* lines 211-221: the values after decoding barr (of the right length)
Decode(file, value, barr) ==
    LET bstr == ByteBits(barr) IN
      [n \in DOMAIN value |->
          int2(SubSeq(bstr, scan_index(file, n) + 1,
                      scan_index(file, n) + scan_numbits(file, n)))]

\* Scan._from_byte_array as a function of the values held: the values after
\* the call and how it ended
from_byte_array(file, value, barr) ==
    IF BarrLengthMismatch(file, barr)
    THEN [value |-> value, outcome |-> "LengthError"]
    ELSE [value |-> Decode(file, value, barr), outcome |-> "ok"]

\* a slice that takes the whole list when it starts at the list's end, as
\* s[-n:] does for n = 0
PySliceFromMinusZero(s, start_idx, stop_idx) ==
    IF start_idx = Len(s) THEN s
    ELSE SubSeq(s, (IF start_idx < 0 THEN 0 ELSE start_idx) + 1,
                IF stop_idx > Len(s) THEN Len(s) ELSE stop_idx)

\* a Python slice s[start:stop] of a list
PySlice(s, start_idx, stop_idx) ==
    LET norm(i) == IF i < 0 THEN (IF i + Len(s) < 0 THEN 0 ELSE i + Len(s))
                   ELSE IF i > Len(s) THEN Len(s) ELSE i
    IN SubSeq(s, norm(start_idx) + 1, norm(stop_idx))

Zeros(n) == [i \in 1..n |-> 0]

(***************************************************************************)
(* Scan.write_twice as a function of the object's state, of the list the   *)
(* second read_ints returns and of the callback that raises (0: none).     *)
(* The list the first read_ints returns is dropped (line 237).  st holds    *)
(* the object's value, pre_data and post_data; the prefix and suffix are   *)
(* stored before the body is decoded.                                      *)
(***************************************************************************)
\* lines 236-239: the transport calls of a write_twice with an fpga
ScanTransport(arr, count) ==
    <<[call |-> "write_ints", arr |-> arr], [call |-> "read_ints", size |-> count],
      [call |-> "write_ints", arr |-> arr], [call |-> "read_ints", size |-> count]>>

WriteTwice(file, fpga, pre, post, st, cbs, scan_out, raise_at) ==
    LET barr == to_byte_array(file, st.value)
        new_scan == PySlice(scan_out, pre, Len(scan_out) - post)
        st1 == [value |-> st.value,
                pre_data |-> PySlice(scan_out, 0, pre),
                post_data |-> PySlice(scan_out, Len(scan_out) - post, Len(scan_out)),
                outcome |-> "ok", io |-> ScanTransport(<<16>> \o barr, Len(barr) + pre + post),
                notified |-> <<>>]
    IN IF fpga /\ BarrLengthMismatch(file, new_scan)
       THEN [st1 EXCEPT !.outcome = "LengthError"]
       ELSE IF fpga
       THEN [st1 EXCEPT !.value = Decode(file, st.value, new_scan),
                        !.notified = FanOut(cbs, "", Decode(file, st.value, new_scan), raise_at),
                        !.outcome = IF raise_at = 0 THEN "ok" ELSE "CallbackError"]
       ELSE [st1 EXCEPT !.pre_data = Zeros(pre), !.post_data = Zeros(post), !.io = <<>>,
                        !.notified = FanOut(cbs, "", st.value, raise_at),
                        !.outcome = IF raise_at = 0 THEN "ok" ELSE "CallbackError"]

\* a write_twice that takes its scan_out from the first read_ints
ScanOutFirst(reads) == reads[1]

\* lines 237-239: of the lists the two read_ints return, the first is dropped
\* and the second is scan_out
ScanOut(reads) == reads[2]

\* the bytes a read_ints is tried with
ByteVals == {0, 160}

\* the lists of k bytes a read_ints is tried with: zeros, with at most one
\* byte of another value
ByteLists(k) ==
    {[i \in 1..k |-> IF i = j THEN v ELSE 0] : j \in 0..k, v \in ByteVals \ {0}}

\* what read_ints(count) may return: count bytes, or one byte fewer or more
ScanReads(count) ==
    UNION {ByteLists(k) : k \in {c \in (count - 1)..(count + 1) : c >= 0}}

\* what the first read_ints(count) of a write_twice may return: count zeros,
\* or count bytes of another value
FirstReads(count) == {[i \in 1..count |-> v] : v \in ByteVals}

ScanState == [value |-> scan_value, pre_data |-> pre_data, post_data |-> post_data]

\* lines 236-239: the fail_at-th of the four transport calls raises.
\* Nothing catches the error, so it leaves write_twice from that call: the
\* calls after it, lines 241-246 and the callbacks are not reached.
WriteTwiceRaises(file, pre, post, st, fail_at) ==
    LET barr == to_byte_array(file, st.value)
    IN [value |-> st.value, pre_data |-> st.pre_data, post_data |-> st.post_data,
        outcome |-> "TransportError",
        io |-> SubSeq(ScanTransport(<<16>> \o barr, Len(barr) + pre + post), 1, fail_at),
        notified |-> <<>>]

\* raised is the callback that raised, or the transport call that did
write_twice ==
    /\ backend = "Scan"
    /\ \E count \in {Len(to_byte_array(scan_file, scan_value))
                       + read_pre_bytes + read_post_bytes} :
       \E x \in {[r |-> WriteTwice(scan_file, has_fpga, read_pre_bytes, read_post_bytes,
                                   ScanState, scan_callbacks, ScanOut(<<first, second>>),
                                   raise_at),
                  first |-> first, second |-> second] :
                   raise_at \in 0..Len(scan_callbacks),
                   first \in IF has_fpga THEN FirstReads(count) ELSE {<<>>},
                   second \in IF has_fpga THEN ScanReads(count) ELSE {<<>>}}
                  \cup {[r |-> WriteTwiceRaises(scan_file, read_pre_bytes, read_post_bytes,
                                                ScanState, fail_at),
                         first |-> <<>>, second |-> <<>>] :
                          fail_at \in IF has_fpga THEN 1..4 ELSE {}} :
         /\ scan_value' = x.r.value
         /\ pre_data' = x.r.pre_data
         /\ post_data' = x.r.post_data
         /\ last' = [NoCall EXCEPT !.op = "write_twice", !.outcome = x.r.outcome,
                        !.before = scan_value, !.first = x.first, !.output = x.second,
                        !.sent = to_byte_array(scan_file, scan_value),
                        !.io = x.r.io, !.notified = x.r.notified,
                        !.raised = IF x.r.outcome = "CallbackError" THEN Len(x.r.notified)
                                   ELSE IF x.r.outcome = "TransportError" THEN Len(x.r.io)
                                   ELSE 0]
    /\ UNCHANGED ext_vars
    /\ UNCHANGED <<backend, fpga_vars, scan_file, has_fpga, read_pre_bytes,
                   read_post_bytes, scan_callbacks>>

(***************************************************************************)
(* Scan.set: stores the value as it is, with no check.                     *)
(***************************************************************************)
Scan_set ==
    /\ backend = "Scan"
    /\ \E name \in Range(scan_order(scan_file)) :
       \E value \in (0 .. (2^scan_numbits(scan_file, name) - 1))
                     \cup {2^scan_numbits(scan_file, name) - 1 + MaxSetExcess} :
         /\ scan_value' = [scan_value EXCEPT ![name] = value]
         /\ last' = [NoCall EXCEPT !.op = "Scan.set", !.bus = name, !.value = value,
                        !.before = scan_value]
    /\ UNCHANGED ext_vars
    /\ UNCHANGED <<backend, fpga_vars, scan_file, has_fpga, read_pre_bytes,
                   read_post_bytes, pre_data, post_data, scan_callbacks>>

(***************************************************************************)
(* Scan.add_callback.                                                      *)
(***************************************************************************)
Scan_add_callback ==
    /\ backend = "Scan"
    /\ Len(scan_callbacks) < MaxCallbacks
    /\ \E fun \in NextFuns(scan_callbacks) :
         /\ scan_callbacks' = Append(scan_callbacks, fun)
         /\ last' = [NoCall EXCEPT !.op = "Scan.add_callback", !.before = scan_value]
    /\ UNCHANGED ext_vars
    /\ UNCHANGED <<backend, fpga_vars, scan_file, has_fpga, read_pre_bytes,
                   read_post_bytes, scan_value, pre_data, post_data>>

(***************************************************************************)
(* The states after construction.  FPGABase.__init__ loads the defaults    *)
(* of the definition file.  Scan.__init__ loads the defaults and calls     *)
(* write_twice, with no callback registered yet; the object exists only    *)
(* if that call returns.                                                   *)
(***************************************************************************)
InitFPGABase ==
    /\ backend = "FPGABase"
    /\ fake_scan \in BOOLEAN
    /\ check_scan \in BOOLEAN
    /\ chain_value = DefaultValue
    /\ callbacks = <<>>
    /\ scan_file = ScanFile
    /\ has_fpga = FALSE
    /\ read_pre_bytes = 0
    /\ read_post_bytes = 0
    /\ scan_value = ScanDefaults(ScanFile)
    /\ pre_data = <<>>
    /\ post_data = <<>>
    /\ scan_callbacks = <<>>
    /\ last = NoCall
    /\ IdleSearch
    /\ IdleThreads

InitScan ==
    /\ backend = "Scan"
    /\ fake_scan = FALSE
    /\ check_scan = FALSE
    /\ chain_value = DefaultValue
    /\ callbacks = <<>>
    /\ scan_file = ScanFile
    /\ has_fpga \in BOOLEAN
    /\ read_pre_bytes \in {0, MaxExtraBytes}
    /\ read_post_bytes \in {0, MaxExtraBytes}
    /\ scan_callbacks = <<>>
    /\ \E count \in {Len(to_byte_array(ScanFile, ScanDefaults(ScanFile)))
                       + read_pre_bytes + read_post_bytes} :
       \E first \in IF has_fpga THEN FirstReads(count) ELSE {<<>>} :
       \E second \in IF has_fpga THEN ScanReads(count) ELSE {<<>>} :
         \E r \in {WriteTwice(ScanFile, has_fpga, read_pre_bytes, read_post_bytes,
                              [value |-> ScanDefaults(ScanFile), pre_data |-> <<>>,
                               post_data |-> <<>>],
                              <<>>, ScanOut(<<first, second>>), 0)} :
           /\ r.outcome = "ok"
           /\ scan_value = r.value
           /\ pre_data = r.pre_data
           /\ post_data = r.post_data
    /\ last = NoCall
    /\ IdleSearch
    /\ IdleThreads

Init == InitFPGABase \/ InitScan

(***************************************************************************)
(* The byte codec on its own: to_byte_array and _from_byte_array called    *)
(* on Scan objects of several scan chain files, holding in-range values.   *)
(***************************************************************************)
\* a file of 8 bits, one of 16 bits whose second bus lies across the two
\* bytes, and one of 11 bits
File8 == <<[name |-> "a", defval |-> 0, numbits |-> 3],
           [name |-> "b", defval |-> 0, numbits |-> 5]>>

File16 == <<[name |-> "a", defval |-> 0, numbits |-> 5],
            [name |-> "b", defval |-> 0, numbits |-> 5],
            [name |-> "c", defval |-> 0, numbits |-> 6]>>

File11 == <<[name |-> "a", defval |-> 0, numbits |-> 4],
            [name |-> "b", defval |-> 0, numbits |-> 7]>>

CodecFiles == {ScanFile, File8, File16, File11}

\* the values a bus of w bits is tried with
FieldVals(w) ==
    IF w <= MaxFullWidth THEN 0 .. (2^w - 1)
    ELSE {0, 1, 2^(w - 1), 2^w - 1}

\* the in-range values of the buses of a file
RECURSIVE ValSeqs(_, _)
ValSeqs(file, k) ==
    IF k = 0 THEN {<<>>}
    ELSE {Append(s, v) : s \in ValSeqs(file, k - 1), v \in FieldVals(file[k].numbits)}

CodecValues(file) ==
    {[n \in Range(scan_order(file)) |-> s[LineOf(file, n)]] : s \in ValSeqs(file, Len(file))}

InitCodec ==
    /\ backend = "Scan"
    /\ fake_scan = FALSE
    /\ check_scan = FALSE
    /\ chain_value = DefaultValue
    /\ callbacks = <<>>
    /\ scan_file \in CodecFiles
    /\ has_fpga = FALSE
    /\ read_pre_bytes = 0
    /\ read_post_bytes = 0
    /\ scan_value \in CodecValues(scan_file)
    /\ pre_data = <<>>
    /\ post_data = <<>>
    /\ scan_callbacks = <<>>
    /\ last = NoCall
    /\ IdleSearch
    /\ IdleThreads

\* Scan.to_byte_array: changes nothing, returns the bytes
Scan_to_byte_array ==
    /\ last' = [NoCall EXCEPT !.op = "to_byte_array", !.before = scan_value,
                   !.output = to_byte_array(scan_file, scan_value)]
    /\ UNCHANGED ext_vars
    /\ UNCHANGED <<backend, fpga_vars, scan_vars>>

\* the lists _from_byte_array is tried with: the encoding of the values
\* held, and lists of the length expected, one shorter and one longer
CodecBarrs(file, value) ==
    {to_byte_array(file, value)} \cup ScanReads(scan_nbytes(file))

Scan_from_byte_array ==
    /\ \E barr \in CodecBarrs(scan_file, scan_value) :
       \E r \in {from_byte_array(scan_file, scan_value, barr)} :
         /\ scan_value' = r.value
         /\ last' = [NoCall EXCEPT !.op = "_from_byte_array", !.before = scan_value,
                        !.sent = barr, !.outcome = r.outcome]
    /\ UNCHANGED ext_vars
    /\ UNCHANGED <<backend, fpga_vars, scan_file, has_fpga, read_pre_bytes,
                   read_post_bytes, pre_data, post_data, scan_callbacks>>

NextCodec == Scan_to_byte_array \/ Scan_from_byte_array

SpecCodec == InitCodec /\ [][NextCodec]_vars

Next ==
    \/ set_scan
    \/ add_callback
    \/ set_scan_vals
    \/ update_scan
    \/ Scan_set
    \/ Scan_add_callback
    \/ write_twice

Spec == Init /\ [][Next]_vars
(***************************************************************************)
(* Properties.                                                             *)
(***************************************************************************)
UpdateCalled ==
    backend = "FPGABase" /\ last.op = "update_scan" /\ last.outcome # "TransportError"

\* the buses of the updated chain whose readback differs from the value sent
Differing == {i \in 1..Len(last.sent) : last.output[i] # last.sent[i]}

BusAt(i) == chain_order[last.chain][i]

\* the callables of the calls made during the last call, in order
NotifiedFuns == [i \in 1..Len(last.notified) |-> last.notified[i].fun]

\* C1: set_scan on a bus of w bits raises and leaves every stored value
\* unchanged when v < 0 or v >= 2^w, and succeeds and stores v when
\* 0 <= v <= 2^w - 1.
C1_SetScanRange ==
    (backend = "FPGABase" /\ last.op = "set_scan" /\ last.bus \in BusNames(last.chain)) =>
        LET w == chain_blen[last.chain][last.bus] IN
          /\ (last.value < 0 \/ last.value >= 2^w) =>
                 /\ last.outcome = "RangeError"
                 /\ chain_value = last.before
          /\ (0 <= last.value /\ last.value <= 2^w - 1) =>
                 /\ last.outcome = "ok"
                 /\ chain_value[last.chain][last.bus] = last.value

\* set_scan has just rejected 2^w on the 2-bit bus, after the largest legal
\* value was stored
C1_Witness ==
    /\ backend = "FPGABase" /\ last.op = "set_scan"
    /\ last.chain = "ctrl" /\ last.bus = "gain" /\ last.value = 4
    /\ last.outcome = "RangeError"
    /\ chain_value["ctrl"]["gain"] = 3

\* C2: every bus value of the registry satisfies 0 <= value < 2^nbits, in
\* every reachable state, whatever the transport returns.
C2_ValuesInRange ==
    backend = "FPGABase" =>
        \A c \in ChainNames : \A b \in BusNames(c) :
            0 <= chain_value[c][b] /\ chain_value[c][b] < 2^chain_blen[c][b]

\* C3: a successful set_scan makes no transport call, invokes no callback
\* and changes no bus but its own; of the calls on the registry only
\* update_scan makes transport calls and invokes callbacks.
C3_SetScanLocal ==
    /\ (backend = "FPGABase" /\ last.op = "set_scan" /\ last.outcome = "ok") =>
          /\ last.io = <<>>
          /\ last.notified = <<>>
          /\ \A c \in ChainNames : \A b \in BusNames(c) :
                 (c # last.chain \/ b # last.bus) => chain_value[c][b] = last.before[c][b]
    /\ (backend = "FPGABase" /\ (last.io # <<>> \/ last.notified # <<>>)) =>
          last.op = "update_scan"

\* a set_scan that changed a bus of a two-bus chain of a registry that has a
\* real transport and a registered callback
C3_Witness ==
    /\ backend = "FPGABase" /\ last.op = "set_scan" /\ last.outcome = "ok"
    /\ ~fake_scan /\ callbacks # <<>>
    /\ last.chain = "ctrl" /\ last.bus = "gain"
    /\ last.before["ctrl"]["gain"] # last.value
    /\ chain_value["ctrl"]["en"] = 1

\* C4: in fake mode an update (update_scan with fake_scan, write_twice with
\* no fpga) makes no transport call, also for a pin chain, leaves every
\* value as it was, and invokes each registered callback once, in order
\* (a callback that raises ends the call: C10).
C4_FakeUpdate ==
    /\ (UpdateCalled /\ fake_scan) =>
          /\ last.io = <<>>
          /\ chain_value = last.before
          /\ last.outcome \in {"ok", "CallbackError"}
          /\ last.outcome = "ok" => NotifiedFuns = callbacks
    /\ (backend = "Scan" /\ last.op = "write_twice" /\ ~has_fpga) =>
          /\ last.io = <<>>
          /\ scan_value = last.before
          /\ last.outcome \in {"ok", "CallbackError"}
          /\ last.outcome = "ok" => NotifiedFuns = scan_callbacks

\* a fake update of the pin chain, holding a value that was set, with two
\* callbacks registered
C4_Witness ==
    /\ UpdateCalled /\ fake_scan /\ last.chain = "pins"
    /\ chain_value["pins"]["io"] = 1
    /\ Len(callbacks) = 2 /\ last.outcome = "ok"

\* the case of C5, C6: update_scan ran the transport with checking enabled
\* and some bus that is not read-only read back differently
CheckedMismatch ==
    /\ UpdateCalled /\ ~fake_scan /\ (last.check \/ check_scan)
    /\ Len(last.output) = Len(last.sent)
    /\ \E i \in Differing : ~is_scan_read_only(last.chain, BusAt(i))

C6_NoCallbackOnMismatch ==
    (UpdateCalled /\ (CheckedMismatch \/ last.outcome = "ConsistencyError")) =>
        /\ last.outcome = "ConsistencyError"
        /\ last.notified = <<>>

C6_Witness ==
    /\ CheckedMismatch /\ last.outcome = "ConsistencyError"
    /\ Len(callbacks) = 2

\* C7: with checking enabled, update_scan raises no error when every bus
\* that read back differently is read-only: the registry then holds the
\* readback and the callbacks are invoked.
C7_ReadOnlyExempt ==
    (/\ UpdateCalled /\ ~fake_scan /\ (last.check \/ check_scan)
     /\ Len(last.output) = Len(last.sent)
     /\ \A i \in Differing : is_scan_read_only(last.chain, BusAt(i))) =>
        /\ last.outcome \in {"ok", "CallbackError"}
        /\ ValueList(chain_value, last.chain) = last.output
        /\ last.outcome = "ok" => NotifiedFuns = callbacks
        /\ callbacks # <<>> => last.notified # <<>>

\* a checked update of the read-only chain whose bus read back differently
C7_Witness ==
    /\ UpdateCalled /\ ~fake_scan /\ last.check /\ last.outcome = "ok"
    /\ Differing # {} /\ Len(last.output) = Len(last.sent)
    /\ is_scan_read_only(last.chain, BusAt(1))
    /\ callbacks # <<>>

\* the body write_twice decodes from the list the second read returned
LastBody == PySlice(last.output, read_pre_bytes, Len(last.output) - read_post_bytes)

\* C8: when the transport returns a list of another length (update_scan:
\* len(output) # len(value); write_twice: body length # ceil(nbits / 8)) the
\* update raises, every value is as before the call and no callback is invoked.
C8_LengthMismatch ==
    /\ (UpdateCalled /\ Len(last.output) # Len(last.sent)) =>
          /\ last.outcome = "LengthError"
          /\ chain_value = last.before
          /\ last.notified = <<>>
    /\ (/\ backend = "Scan" /\ last.op = "write_twice" /\ has_fpga
        /\ last.outcome # "TransportError"
        /\ Len(LastBody) # scan_nbytes(ScanFile)) =>
          /\ last.outcome = "LengthError"
          /\ scan_value = last.before
          /\ last.notified = <<>>

\* the transport returned one value too many to an update with callbacks
C8_Witness ==
    /\ UpdateCalled /\ Len(last.output) > Len(last.sent)
    /\ last.outcome = "LengthError" /\ callbacks # <<>>

\* C9: a successful update_scan invokes every registered callback once per
\* registration, in registration order, with the chain name, after the
\* write-back (each sees the registry holding the readback).
C9_FanOutOrder ==
    (UpdateCalled /\ last.outcome = "ok") =>
        /\ Len(last.notified) = Len(callbacks)
        /\ \A i \in 1..Len(callbacks) :
              /\ last.notified[i].fun = callbacks[i]
              /\ last.notified[i].arg = last.chain
              /\ last.notified[i].seen = chain_value
        /\ ValueList(chain_value, last.chain) = last.output

\* a successful update, with a changed readback, of a registry on which one
\* callable is registered twice
C9_Witness ==
    /\ UpdateCalled /\ last.outcome = "ok" /\ ~fake_scan
    /\ Len(callbacks) = 2 /\ callbacks[1] = callbacks[2]
    /\ last.output # last.sent

\* C10: when a callback raises during the fan-out, update_scan ends with
\* that error, the callbacks registered after it are not invoked, and the
\* registry keeps the values written back.
C10_CallbackRaises ==
    (UpdateCalled /\ last.raised > 0) =>
        /\ last.outcome = "CallbackError"
        /\ Len(last.notified) = last.raised
        /\ \A i \in 1..Len(last.notified) : last.notified[i].fun = callbacks[i]
        /\ ValueList(chain_value, last.chain) = last.output
        /\ \A i \in 1..Len(last.notified) : last.notified[i].seen = chain_value

\* the first of two callbacks raised after a changed readback was written back
C10_Witness ==
    /\ UpdateCalled /\ last.raised = 1 /\ Len(callbacks) = 2
    /\ last.output # last.sent
    /\ chain_value # last.before
\* C11: a write_twice with an fpga makes four transport calls, write, read,
\* write, read: both writes send byte 16 followed by the encoding of the
\* values held when the call began, both reads ask for len(encoding) +
\* pre_bytes + post_bytes bytes, and the values decoded (and the prefix and
\* suffix kept) come from the list the second read returned, whatever the
\* first returned.
C11_DoubleShift ==
    (/\ backend = "Scan" /\ last.op = "write_twice" /\ has_fpga
     /\ last.outcome # "TransportError") =>
        LET enc == to_byte_array(scan_file, last.before)
            payload == <<16>> \o enc
            count == Len(enc) + read_pre_bytes + read_post_bytes
        IN /\ Len(last.io) = 4
           /\ last.io[1] = [call |-> "write_ints", arr |-> payload]
           /\ last.io[2] = [call |-> "read_ints", size |-> count]
           /\ last.io[3] = [call |-> "write_ints", arr |-> payload]
           /\ last.io[4] = [call |-> "read_ints", size |-> count]
           /\ pre_data = PySlice(last.output, 0, read_pre_bytes)
           /\ last.outcome # "LengthError" =>
                  /\ Len(LastBody) = scan_nbytes(scan_file)
                  /\ scan_value = Decode(scan_file, last.before, LastBody)

\* a write_twice whose two reads returned lists that decode differently,
\* made on values that were set
C11_Witness ==
    /\ backend = "Scan" /\ last.op = "write_twice" /\ has_fpga
    /\ last.outcome = "ok" /\ read_pre_bytes > 0
    /\ last.before # ScanDefaults(scan_file)
    /\ Len(last.first) = Len(last.output)
    /\ Decode(scan_file, last.before,
              PySlice(last.first, read_pre_bytes, Len(last.first) - read_post_bytes))
         # scan_value
(***************************************************************************)
(* Properties of the byte codec (SpecCodec).                               *)
(***************************************************************************)
\* every bus holds a value of its width
InRange(file, value) ==
    \A n \in DOMAIN value : 0 <= value[n] /\ value[n] < 2^scan_numbits(file, n)

\* _from_byte_array has just been handed the encoding of the values held
RoundTrip ==
    /\ last.op = "_from_byte_array"
    /\ last.sent = to_byte_array(scan_file, last.before)
    /\ InRange(scan_file, last.before)

\* C12: for a file whose total width is a multiple of 8 and in-range
\* values, _from_byte_array of the bytes of to_byte_array leaves every value
\* as it was.
C12_AlignedRoundTrip ==
    (RoundTrip /\ scan_nbits(scan_file) % 8 = 0) =>
        /\ last.outcome = "ok"
        /\ scan_value = last.before

\* a round trip of the 16-bit file with the greatest value in the bus that
\* lies across the two bytes and different values in the others
C12_Witness ==
    /\ RoundTrip /\ scan_file = File16 /\ last.outcome = "ok"
    /\ last.before = [a |-> 1, b |-> 31, c |-> 32]

\* C13: for a file whose total width is not a multiple of 8 and in-range
\* values, _from_byte_array of the bytes of to_byte_array leaves every value
\* as it was.
C13_UnalignedRoundTrip ==
    (RoundTrip /\ scan_nbits(scan_file) % 8 # 0) =>
        /\ last.outcome = "ok"
        /\ scan_value = last.before

\* the bytes of a bit string filled with zeros at its end up to a multiple
\* of 8 bits, each byte read most significant bit first
TrailingPadded(bstr) ==
    LET n == (Len(bstr) + 7) \div 8
        bit(i) == IF i <= Len(bstr) THEN bstr[i] ELSE 0
    IN [k \in 1..n |-> int2([j \in 1..8 |-> bit(8 * (k - 1) + j)])]

\* C14: to_byte_array returns ceil(nbits / 8) bytes that are, read most
\* significant bit first, the buses' zero-filled binary values in the order
\* of the file, the last byte filled with zero bits at its low-order end.
C14_Encoding ==
    (last.op = "to_byte_array" /\ InRange(scan_file, last.before)) =>
        /\ Len(last.output) = scan_nbytes(scan_file)
        /\ last.output = TrailingPadded(ChainBits(scan_file, last.before, Len(scan_file)))

\* C15: _from_byte_array raises and changes no value for every list whose
\* length is not ceil(nbits / 8), shorter or longer, and decodes a list of
\* exactly that length.
C15_ExactLength ==
    last.op = "_from_byte_array" =>
        /\ Len(last.sent) # scan_nbytes(scan_file) =>
              /\ last.outcome = "LengthError"
              /\ scan_value = last.before
        /\ Len(last.sent) = scan_nbytes(scan_file) =>
              /\ last.outcome = "ok"
              /\ scan_value = Decode(scan_file, last.before, last.sent)

\* a list one byte too long was rejected by an object holding other values
\* than the list would decode to
C15_Witness ==
    /\ last.op = "_from_byte_array" /\ last.outcome = "LengthError"
    /\ Len(last.sent) = scan_nbytes(scan_file) + 1
    /\ scan_file = File11
    /\ scan_value # Decode(scan_file, last.before, SubSeq(last.sent, 1, 2))

(***************************************************************************)
(* The eye and trace searches (backend/serdes/eye.py, trace.py) run on a    *)
(* WorkerThread; the GUI thread sets the thread's stop flag to cancel.      *)
(* Every step of the worker is one transition; the flag may be set between  *)
(* any two of them.  Indices are 0-based as in the source.                  *)
(***************************************************************************)

\* the largest number of offsets in a column
MaxY == 4

\* the largest number of delay columns
MaxT == 2

\* EyePlotBase.__init__: the configuration of a measurement
EyeConfig ==
    [pat_len |-> 2, nbits_meas |-> 4, nerr_max |-> 1,
     max_ber_num |-> 1, max_ber_den |-> 2,
     t_start |-> 10, t_step |-> 10, y_start |-> 100, y_step |-> 5,
     count_bits |-> 2]

\* self.tvec[t_idx] and self.yvec[y_idx]
TVal(t_idx) == cfg.t_start + t_idx * cfg.t_step
YVal(y_idx) == cfg.y_start + y_idx * cfg.y_step

\* a marker that cannot be told from a result without errors
FocusValZero == [ber |-> "0", cnt |-> 0, bits |-> 0]

\* the values handed to thread.send: (ber, cnt, bits_read)
FocusVal == [ber |-> "0", cnt |-> -1, bits |-> 0]
MaxErrVal == [ber |-> "max_ber", cnt |-> cfg.nbits_meas, bits |-> cfg.nbits_meas]
IdealVal == [ber |-> "targ_ber", cnt |-> 0, bits |-> cfg.nbits_meas]
Msg(t_idx, y_idx, val) == [t_idx |-> t_idx, y_idx |-> y_idx, val |-> val]

\* range(lo, hi) as a list
PyRange(lo, hi) == IF hi > lo THEN [i \in 1..(hi - lo) |-> lo + i - 1] ELSE <<>>

\* a fill that leaves out the first index of its range
MaxErrFillShort(t_idx, lo, hi, mark_set) ==
    LET unmarked(idx) == idx \notin mark_set
        idxs == SelectSeq(PyRange(lo + 1, hi), unmarked)
    IN [i \in 1..Len(idxs) |-> Msg(t_idx, idxs[i], MaxErrVal)]

\* for idx in range(lo, hi): if idx not in mark_set: send(max_err_val)
MaxErrFill(t_idx, lo, hi, mark_set) ==
    LET unmarked(idx) == idx \notin mark_set
        idxs == SelectSeq(PyRange(lo, hi), unmarked)
    IN [i \in 1..Len(idxs) |-> Msg(t_idx, idxs[i], MaxErrVal)]

\* for idx in range(bot_edge_idx + 1, top_edge_idx): send(ideal_val)
IdealFill(t_idx, bot_edge_idx, top_edge_idx) ==
    LET idxs == PyRange(bot_edge_idx + 1, top_edge_idx)
    IN [i \in 1..Len(idxs) |-> Msg(t_idx, idxs[i], IdealVal)]

\* one call on the hardware, with the delay and offset it is made at
HwCall(call, delay, offset) == [call |-> call, delay |-> delay, offset |-> offset]

\* the calls that measure: the hardware oracle
OracleCalls == {"init_error_meas", "init_meas", "read_output", "read_error_count"}

\* the hardware sees no error at the point it is set to
InEye ==
    \E t_idx \in 0..(cfg.num_t - 1) :
        /\ hw_delay = TVal(t_idx)
        /\ \E y_idx \in cfg.eye[t_idx + 1] : hw_offset = YVal(y_idx)

\* an iterator whose number of values is always rounded up
BinaryIteratorRoundUp(low, high, step) ==
    LET nmax == (high - low) \div step + 1
    IN [offset |-> low, step |-> step, low |-> 0, high |-> nmax,
        current |-> (0 + nmax) \div 2]

\* BinaryIterator.__init__ with a bound high
BinaryIteratorInit(low, high, step) ==
    LET nmax0 == (high - low) \div step
        nmax == IF low + step * nmax0 < high THEN nmax0 + 1 ELSE nmax0
    IN [offset |-> low, step |-> step, low |-> 0, high |-> nmax,
        current |-> (0 + nmax) \div 2]

\* BinaryIterator(low, high): the step defaults to 1
BinaryIterator(low, high) == BinaryIteratorInit(low, high, 1)

\* BinaryIterator.has_next, get_next, up
has_next(it) == it.low < it.high
get_next(it) == it.current * it.step + it.offset

\* a search that gives up after one step up
IterUpOnce(it) == [it EXCEPT !.low = it.high, !.current = it.high]

IterUp(it) ==
    [it EXCEPT !.low = it.current + 1, !.current = (it.current + 1 + it.high) \div 2]

\* a search that gives up after one step down
IterDownOnce(it) == [it EXCEPT !.high = it.low, !.current = it.low]

\* BinaryIterator.down
IterDown(it) ==
    [it EXCEPT !.high = it.current, !.current = (it.low + it.current) \div 2]

\* a stop test that is missing inside the pattern loop of read_error
CheckStopOutsideLoop(flag, at) == flag /\ at # "re_85"

\* if self.thread.stop: raise StopException()
CheckStop(flag, at) == flag

\* the locals of a run that has not started
NoLocals ==
    [init_delay |-> 0, init_offset |-> 0, guess_idx |-> 0, t_idx |-> 0,
     mark_set |-> {}, bot_edge_idx |-> 0, top_edge_idx |-> 0,
     site |-> "", ret |-> "", bin_iter |-> BinaryIterator(0, 0), edge_idx |-> 0,
     eye_on_top |-> FALSE, is_bot_edge |-> FALSE, cur_idx |-> 0,
     bot_idx |-> 0, top_idx |-> 0, cur_dir |-> 0,
     cnt |-> 0, bits_read |-> 0, val |-> FocusVal,
     is_bot |-> FALSE, y_idx |-> 0, bot_edge_intv |-> <<>>, top_edge_intv |-> <<>>,
     zero_map |-> <<>>, one_map |-> <<>>, samp |-> 0, ans |-> <<>>, raised |-> ""]

\* one step of the worker: its next position and locals, the hardware calls
\* it makes and the messages it sends
Step(next_pc, next_loc, delay, offset, calls, msgs, tested) ==
    LET oracle == Cardinality({i \in 1..Len(calls) : calls[i].call \in OracleCalls})
    IN /\ pc' = next_pc
       /\ loc' = next_loc
       /\ hw_delay' = delay
       /\ hw_offset' = offset
       /\ hw_log' = hw_log \o calls
       /\ sent' = sent \o msgs
       /\ checked' = tested
       /\ unchecked_calls' = unchecked_calls + (IF checked THEN 0 ELSE oracle)
       /\ calls_after_stop' = calls_after_stop + (IF stop THEN oracle ELSE 0)
       /\ UNCHANGED <<search, cfg, stop>>
       /\ UNCHANGED <<backend, fpga_vars, scan_vars, last, thread_at>>

\* a test of the stop flag: StopException unwinds to run's finally clause
Check(at, next_pc, next_loc) ==
    IF CheckStop(stop, at)
    THEN Step("finally", loc, hw_delay, hw_offset, <<>>, <<>>, FALSE)
    ELSE Step(next_pc, next_loc, hw_delay, hw_offset, <<>>, <<>>, TRUE)

\* a step that touches neither the flag nor the hardware
Local(next_pc, next_loc, msgs) ==
    Step(next_pc, next_loc, hw_delay, hw_offset, <<>>, msgs, FALSE)

\* the while tests of read_error: more bits are needed and the error rate is
\* not yet known to be too high
MoreReads(cnt, bits_read) ==
    /\ bits_read < cfg.nbits_meas
    /\ \/ cnt <= cfg.nerr_max
       \/ cnt * cfg.max_ber_den < cfg.max_ber_num * bits_read

\* where read_error returns to
ReturnSite(site) ==
    CASE site = "guess" -> "run_131"
      [] site = "bin" -> "bs_209"
      [] site = "flood" -> "fl_241"

\* read_error returns (ber, cnt, bits_read)
ReadErrorDone(cnt, bits_read) ==
    [loc EXCEPT !.cnt = 0, !.bits_read = 0,
                !.val = [ber |-> "ber", cnt |-> cnt, bits |-> bits_read]]

\* EyePlotBase.read_error, step by step
read_error ==
    /\ search = "EyePlotBase"
    /\ \/ /\ pc = "re_75"
          /\ Check("re_75", "re_77", loc)
       \/ /\ pc = "re_77"
          /\ Step("re_78", loc, hw_delay, hw_offset,
                  <<HwCall("init_error_meas", hw_delay, hw_offset)>>, <<>>, FALSE)
       \/ /\ pc = "re_78"
          /\ Check("re_78",
                   IF cfg.is_pattern
                   THEN (IF MoreReads(0, 0) THEN "re_85" ELSE ReturnSite(loc.site))
                   ELSE "re_95",
                   IF cfg.is_pattern /\ ~MoreReads(0, 0)
                   THEN ReadErrorDone(0, 0)
                   ELSE [loc EXCEPT !.cnt = 0, !.bits_read = 0])
       \/ /\ pc = "re_85"
          /\ Check("re_85", "re_87", loc)
       \/ /\ pc = "re_87"
          /\ \E cnt \in {loc.cnt + (IF InEye THEN 0 ELSE cfg.pat_len)} :
             \E bits_read \in {loc.bits_read + cfg.pat_len} :
                Step(IF MoreReads(cnt, bits_read) THEN "re_85" ELSE ReturnSite(loc.site),
                     IF MoreReads(cnt, bits_read)
                     THEN [loc EXCEPT !.cnt = cnt, !.bits_read = bits_read]
                     ELSE ReadErrorDone(cnt, bits_read),
                     hw_delay, hw_offset,
                     <<HwCall("read_output", hw_delay, hw_offset)>>, <<>>, FALSE)
       \/ /\ pc = "re_95"
          /\ Check("re_95", "re_98", loc)
       \/ /\ pc = "re_102"
          /\ Check("re_102", "re_98", loc)
       \/ /\ pc = "re_98"
          /\ \E cnt \in {loc.cnt + (IF InEye THEN 0 ELSE cfg.nbits_meas)} :
             \E bits_read \in {loc.bits_read + cfg.count_bits} :
                Step(IF MoreReads(cnt, bits_read) THEN "re_102" ELSE ReturnSite(loc.site),
                     IF MoreReads(cnt, bits_read)
                     THEN [loc EXCEPT !.cnt = cnt, !.bits_read = bits_read]
                     ELSE ReadErrorDone(cnt, bits_read),
                     hw_delay, hw_offset,
                     <<HwCall("read_error_count", hw_delay, hw_offset)>>, <<>>, FALSE)

\* a binary search below the guess whose range takes in the guess
BinSearchCallInclusive(l, bot_idx, top_idx, eye_on_top, ret) ==
    [l EXCEPT !.bin_iter = BinaryIterator(bot_idx, IF eye_on_top THEN top_idx + 1 ELSE top_idx),
              !.edge_idx = IF eye_on_top THEN top_idx ELSE bot_idx - 1,
              !.eye_on_top = eye_on_top, !.ret = ret]

\* the call bin_iter = BinaryIterator(bot_idx, top_idx) that opens
\* _bin_search_eye_edge, and where the search returns to
BinSearchCall(l, bot_idx, top_idx, eye_on_top, ret) ==
    [l EXCEPT !.bin_iter = BinaryIterator(bot_idx, top_idx),
              !.edge_idx = IF eye_on_top THEN top_idx ELSE bot_idx - 1,
              !.eye_on_top = eye_on_top, !.ret = ret]

\* EyePlotBase._bin_search_eye_edge, step by step
bin_search_eye_edge ==
    /\ search = "EyePlotBase"
    /\ \/ /\ pc = "bs_199"
          /\ IF has_next(loc.bin_iter)
             THEN Check("bs_200", "bs_203", loc)
             ELSE Local(loc.ret, loc, <<>>)
       \/ /\ pc = "bs_203"
          /\ \E cur_idx \in {get_next(loc.bin_iter)} :
                Step("bs_206", [loc EXCEPT !.cur_idx = cur_idx],
                     hw_delay, YVal(cur_idx),
                     <<HwCall("set_offset", hw_delay, YVal(cur_idx))>>,
                     <<Msg(loc.t_idx, cur_idx, FocusVal)>>, FALSE)
       \/ /\ pc = "bs_206"
          /\ Check("bs_206", "re_75", [loc EXCEPT !.site = "bin"])
       \/ /\ pc = "bs_209"
          /\ Local("bs_199",
                   [loc EXCEPT !.mark_set = @ \cup {loc.cur_idx},
                               !.edge_idx = IF loc.val.cnt = 0 THEN loc.cur_idx ELSE @,
                               !.bin_iter =
                                   IF (loc.val.cnt = 0) = loc.eye_on_top
                                   THEN IterDown(@) ELSE IterUp(@)],
                   <<Msg(loc.t_idx, loc.cur_idx, loc.val)>>)

\* a flood search that stops as soon as one side is exhausted
FloodMoreBothSides(start_idx, stop_idx, bot_idx, top_idx) ==
    bot_idx > start_idx /\ top_idx < stop_idx - 1

\* the while test of _flood_search_eye_edge
FloodMore(start_idx, stop_idx, bot_idx, top_idx) ==
    bot_idx > start_idx \/ top_idx < stop_idx - 1

\* the index _flood_search_eye_edge probes next
FloodNext(start_idx, stop_idx, bot_idx, top_idx, cur_dir) ==
    IF (cur_dir < 0 /\ bot_idx > start_idx) \/ top_idx = stop_idx - 1
    THEN bot_idx - 1
    ELSE top_idx + 1

\* the call that opens _flood_search_eye_edge(mark_set, t_idx, 0, num_y,
\* guess_idx, guess_idx)
FloodSearchCall(l) ==
    [l EXCEPT !.bot_idx = l.guess_idx, !.top_idx = l.guess_idx, !.cur_dir = -1]

\* EyePlotBase._flood_search_eye_edge, step by step
flood_search_eye_edge ==
    /\ search = "EyePlotBase"
    /\ \/ /\ pc = "fl_227"
          /\ IF FloodMore(0, cfg.num_y, loc.bot_idx, loc.top_idx)
             THEN Check("fl_233", "fl_236",
                        [loc EXCEPT !.cur_idx = FloodNext(0, cfg.num_y, loc.bot_idx,
                                                          loc.top_idx, loc.cur_dir)])
             ELSE Local("run_152",
                        [loc EXCEPT !.edge_idx = -1, !.is_bot_edge = FALSE], <<>>)
       \/ /\ pc = "fl_236"
          /\ Step("fl_238", loc, hw_delay, YVal(loc.cur_idx),
                  <<HwCall("set_offset", hw_delay, YVal(loc.cur_idx))>>,
                  <<Msg(loc.t_idx, loc.cur_idx, FocusVal)>>, FALSE)
       \/ /\ pc = "fl_238"
          /\ Check("fl_238", "re_75", [loc EXCEPT !.site = "flood"])
       \/ /\ pc = "fl_241"
          /\ IF loc.val.cnt = 0
             THEN Local("run_152",
                        [loc EXCEPT !.mark_set = @ \cup {loc.cur_idx},
                                    !.edge_idx = loc.cur_idx,
                                    !.is_bot_edge = loc.cur_idx > loc.top_idx],
                        <<Msg(loc.t_idx, loc.cur_idx, loc.val)>>)
             ELSE Local("fl_227",
                        [loc EXCEPT !.mark_set = @ \cup {loc.cur_idx},
                                    !.bot_idx = IF loc.cur_idx < @ THEN loc.cur_idx ELSE @,
                                    !.top_idx = IF loc.cur_idx > @ THEN loc.cur_idx ELSE @,
                                    !.cur_dir = -loc.cur_dir],
                        <<Msg(loc.t_idx, loc.cur_idx, loc.val)>>)

\* a guess that is not clamped to the offsets
GuessIdxUnclamped(num_y, y_guess) ==
    IF y_guess = <<>> THEN num_y \div 2 ELSE y_guess[1]

\* guess_idx as run computes it from y_guess
GuessIdx(num_y, y_guess) ==
    LET g == IF y_guess = <<>> THEN num_y \div 2 ELSE y_guess[1]
        m == IF g < num_y - 1 THEN g ELSE num_y - 1
    IN IF m > 0 THEN m ELSE 0

\* a teardown that puts back the delay only
FinallyDelayOnly(l, at) == IF at = "finally" THEN l.init_delay ELSE hw_offset

\* the finally clause of run: the values set_delay and set_offset are given
Finally(l, at) == IF at = "finally" THEN l.init_delay ELSE l.init_offset

\* run's finally clause, shared by both searches
RunFinally ==
    \/ /\ pc = "finally"
       /\ \E v \in {Finally(loc, "finally")} :
            Step("finally_2", loc, v, hw_offset,
                 <<HwCall("set_delay", v, hw_offset)>>, <<>>, FALSE)
    \/ /\ pc = "finally_2"
       /\ \E v \in {Finally(loc, "finally_2")} :
            Step("done", loc, hw_delay, v,
                 <<HwCall("set_offset", hw_delay, v)>>, <<>>, FALSE)

\* EyePlotBase.run, step by step
EyePlotBase_run ==
    /\ search = "EyePlotBase"
    /\ \/ /\ pc = "run"
          /\ Step("run_123",
                  [loc EXCEPT !.init_delay = hw_delay, !.init_offset = hw_offset,
                              !.guess_idx = GuessIdx(cfg.num_y, cfg.y_guess),
                              !.t_idx = 0],
                  hw_delay, hw_offset,
                  <<HwCall("get_delay", hw_delay, hw_offset),
                    HwCall("get_offset", hw_delay, hw_offset)>>, <<>>, FALSE)
       \/ /\ pc = "run_123"
          /\ IF loc.t_idx < cfg.num_t
             THEN Check("run_124", "run_127", loc)
             ELSE Local("finally", loc, <<>>)
       \/ /\ pc = "run_127"
          /\ Step("re_75", [loc EXCEPT !.site = "guess"],
                  TVal(loc.t_idx), YVal(loc.guess_idx),
                  <<HwCall("set_delay", TVal(loc.t_idx), hw_offset),
                    HwCall("set_offset", TVal(loc.t_idx), YVal(loc.guess_idx))>>,
                  <<Msg(loc.t_idx, loc.guess_idx, FocusVal)>>, FALSE)
       \/ /\ pc = "run_131"
          /\ Local(IF loc.val.cnt = 0 THEN "bs_199" ELSE "fl_227",
                   IF loc.val.cnt = 0
                   THEN BinSearchCall([loc EXCEPT !.mark_set = {loc.guess_idx}],
                                      0, loc.guess_idx, TRUE, "run_138")
                   ELSE FloodSearchCall([loc EXCEPT !.mark_set = {loc.guess_idx}]),
                   <<Msg(loc.t_idx, loc.guess_idx, loc.val)>>)
       \/ /\ pc = "run_138"
          /\ Local("bs_199",
                   BinSearchCall([loc EXCEPT !.bot_edge_idx = loc.edge_idx],
                                 loc.guess_idx + 1, cfg.num_y, FALSE, "run_144"),
                   MaxErrFill(loc.t_idx, 0, loc.edge_idx, loc.mark_set))
       \/ /\ pc = "run_144"
          /\ Local("run_184", [loc EXCEPT !.top_edge_idx = loc.edge_idx],
                   MaxErrFill(loc.t_idx, loc.edge_idx + 1, cfg.num_y, loc.mark_set))
       \/ /\ pc = "run_152"
          /\ IF loc.edge_idx < 0
             THEN Local("run_123", [loc EXCEPT !.t_idx = @ + 1], <<>>)
             ELSE IF loc.is_bot_edge
             THEN Local("bs_199",
                        BinSearchCall([loc EXCEPT !.bot_edge_idx = loc.edge_idx],
                                      loc.edge_idx + 1, cfg.num_y, FALSE, "run_144"),
                        MaxErrFill(loc.t_idx, 0, loc.edge_idx, loc.mark_set))
             ELSE Local("bs_199",
                        BinSearchCall([loc EXCEPT !.top_edge_idx = loc.edge_idx],
                                      0, loc.edge_idx, TRUE, "run_178"),
                        MaxErrFill(loc.t_idx, loc.edge_idx + 1, cfg.num_y, loc.mark_set))
       \/ /\ pc = "run_178"
          /\ Local("run_184", [loc EXCEPT !.bot_edge_idx = loc.edge_idx],
                   MaxErrFill(loc.t_idx, 0, loc.edge_idx, loc.mark_set))
       \/ /\ pc = "run_184"
          /\ Local("run_123",
                   [loc EXCEPT !.guess_idx = (loc.bot_edge_idx + loc.top_edge_idx) \div 2,
                               !.t_idx = @ + 1],
                   IdealFill(loc.t_idx, loc.bot_edge_idx, loc.top_edge_idx))
       \/ RunFinally

\* the GUI thread sets the worker's stop flag
set_stop ==
    /\ search # "none"
    /\ ~stop
    /\ stop' = TRUE
    /\ UNCHANGED <<search, cfg, pc, loc, hw_delay, hw_offset, hw_log, sent,
                   checked, unchecked_calls, calls_after_stop>>
    /\ UNCHANGED <<backend, fpga_vars, scan_vars, last, thread_at>>

\* a column's eye: the offsets at which the hardware sees no error
Intervals(num_y) == {lo..hi : lo \in 0..num_y, hi \in -1..(num_y - 1)}

\* the eyes of the columns: one opening, closed in some of the columns
Eyes(num_t, num_y) ==
    {[t \in 1..num_t |-> IF t \in open THEN eye ELSE {}] :
        eye \in Intervals(num_y), open \in SUBSET (1..num_t)}

\* the hardware's state when a search object is constructed
InitHardware ==
    /\ hw_delay = 3
    /\ hw_offset = 7
    /\ hw_log = <<>>
    /\ sent = <<>>
    /\ stop = FALSE
    /\ checked = FALSE
    /\ unchecked_calls = 0
    /\ calls_after_stop = 0

\* a WorkerThread was made for an EyePlotBase and started
InitEye ==
    /\ search = "EyePlotBase"
    /\ \E num_t \in 1..MaxT, num_y \in 1..MaxY, is_pattern \in BOOLEAN :
       \E eye \in Eyes(num_t, num_y) :
       \E y_guess \in {<<>>} :
          cfg = [num_t |-> num_t, num_y |-> num_y, is_pattern |-> is_pattern,
                 eye |-> eye, y_guess |-> y_guess] @@ EyeConfig
    /\ pc = "run"
    /\ loc = NoLocals
    /\ InitHardware

(***************************************************************************)
(* TracePlotBase (backend/serdes/trace.py): the trace search.  Trace        *)
(* indices cur_idx are 0-based as in the source; the lists indexed by them  *)
(* are sequences, so trace cur_idx is element cur_idx + 1.                  *)
(***************************************************************************)

\* the longest history of hardware calls a trace search is followed for
MaxLog == 60

\* TracePlotBase.__init__: the axes of a measurement
TraceConfig == [t_start |-> 10, t_step |-> 10, y_start |-> 100, y_step |-> 5]

\* len(self.str_idx_list)
NumIdx == Len(cfg.str_idx_list)

\* the message _send_mark and _send_focus hand to thread.send
TraceMsg(t_idx, y_idx, cur_idx, val) ==
    [t_idx |-> t_idx, y_idx |-> y_idx, cur_idx |-> cur_idx, val |-> val]

\* _send_focus: one message per trace
SendFocus(t_idx, y_idx) ==
    [k \in 1..NumIdx |-> TraceMsg(t_idx, y_idx, k - 1, 2)]

\* for y_idx in range(lo, hi): self._send_mark(t_idx, y_idx, cur_idx, otype)
SendMarks(t_idx, lo, hi, cur_idx, otype) ==
    LET idxs == PyRange(lo, hi)
    IN [i \in 1..Len(idxs) |-> TraceMsg(t_idx, idxs[i], cur_idx, otype)]

\* the character read_output returns for trace cur_idx: the hardware reads 0
\* below the trace, 1 above it and alternates on it
OutChar(cur_idx, read_cnt) ==
    LET y_idx == (hw_offset - cfg.y_start) \div cfg.y_step
        ymin == cfg.band[1] + cur_idx
        ymax == cfg.band[2] + cur_idx
    IN IF y_idx <= ymin THEN "0"
       ELSE IF y_idx < ymax THEN (IF read_cnt % 2 = 0 THEN "0" ELSE "1")
       ELSE "1"

\* the number of read_output calls made so far
ReadCnt ==
    Cardinality({i \in 1..Len(hw_log) : hw_log[i].call = "read_output"})

\* read_trace lines 83-89: the output types, or the error raised by ans[str_idx]
\* with str_idx left over from the sampling loop
ReadTraceAns(zero_map, one_map) ==
    LET assigning == {k \in 1..NumIdx : zero_map[k] = 0 \/ one_map[k] = 0}
        last_k == CHOOSE k \in assigning : \A j \in assigning : j <= k
        str_idx == cfg.str_idx_list[NumIdx]
        zeros == [k \in 1..NumIdx |-> 0]
    IN IF assigning = {}
       THEN [ans |-> zeros, raised |-> ""]
       ELSE IF cfg.num_samp = 0
       THEN [ans |-> zeros, raised |-> "UnboundLocalError"]
       ELSE IF str_idx >= NumIdx
       THEN [ans |-> zeros, raised |-> "IndexError"]
       ELSE [ans |-> [zeros EXCEPT ![str_idx + 1] =
                          IF zero_map[last_k] = 0 THEN 1 ELSE -1],
             raised |-> ""]

\* max and min of two numbers
Max2(a, b) == IF a > b THEN a ELSE b
Min2(a, b) == IF a < b THEN a ELSE b

\* eval_y lines 111-120: what one output type does to a trace's intervals
NarrowBot(bintv, y_idx, otype) ==
    IF otype < 0 THEN <<Max2(bintv[1], y_idx), bintv[2]>>
    ELSE <<bintv[1], Min2(bintv[2], y_idx)>>

NarrowTop(tintv, y_idx, otype) ==
    IF otype <= 0 THEN <<Max2(tintv[1], y_idx + 1), tintv[2]>>
    ELSE <<tintv[1], Min2(tintv[2], y_idx + 1)>>

\* the interval find_edge works on
CurIntv(l) ==
    IF l.is_bot THEN l.bot_edge_intv[l.cur_idx + 1] ELSE l.top_edge_intv[l.cur_idx + 1]

\* an exception other than StopException leaves run through its finally clause
Raise(error) ==
    Local("finally", [loc EXCEPT !.raised = error], <<>>)

\* find_edge returns: run goes on with the top edge, or with the marks
FindEdgeReturn ==
    IF loc.is_bot
    THEN Local("fe_123", [loc EXCEPT !.is_bot = FALSE], <<>>)
    ELSE Local("run_159", loc, <<>>)

\* TracePlotBase.find_edge, step by step
find_edge ==
    /\ search = "TracePlotBase"
    /\ \/ /\ pc = "fe_123"
          /\ IF CurIntv(loc)[2] = CurIntv(loc)[1] + 1
             THEN FindEdgeReturn
             ELSE Local("ev_104",
                        [loc EXCEPT !.y_idx = Max2(CurIntv(loc)[1],
                                                   Min2(loc.guess_idx, CurIntv(loc)[2] - 1))],
                        <<>>)
       \/ /\ pc = "fe_131"
          /\ IF CurIntv(loc)[2] > CurIntv(loc)[1] + 1
             THEN Local("ev_104",
                        [loc EXCEPT !.y_idx = (CurIntv(loc)[2] + CurIntv(loc)[1]) \div 2],
                        <<>>)
             ELSE FindEdgeReturn

\* TracePlotBase.eval_y, step by step
eval_y ==
    /\ search = "TracePlotBase"
    /\ \/ /\ pc = "ev_104"
          /\ Len(hw_log) < MaxLog \/ stop
          /\ IF loc.y_idx >= cfg.num_y
             THEN Raise("IndexError")
             ELSE Step("ev_106", loc, hw_delay, YVal(loc.y_idx),
                       <<HwCall("set_offset", hw_delay, YVal(loc.y_idx))>>,
                       SendFocus(loc.t_idx, loc.y_idx), FALSE)
       \/ /\ pc = "ev_106"
          /\ Check("ev_106", "rt_63", loc)
       \/ /\ pc = "ev_110"
          /\ Local("fe_131",
                   [loc EXCEPT
                      !.bot_edge_intv =
                          [k \in 1..NumIdx |-> NarrowBot(@[k], loc.y_idx, loc.ans[k])],
                      !.top_edge_intv =
                          [k \in 1..NumIdx |-> NarrowTop(@[k], loc.y_idx, loc.ans[k])],
                      !.ans = <<>>],
                   [k \in 1..NumIdx |-> TraceMsg(loc.t_idx, loc.y_idx, k - 1, loc.ans[k])])

\* TracePlotBase.read_trace, step by step
read_trace ==
    /\ search = "TracePlotBase"
    /\ \/ /\ pc = "rt_63"
          /\ Check("rt_63", "rt_65", loc)
       \/ /\ pc = "rt_65"
          /\ Step(IF cfg.num_samp > 0 THEN "rt_72" ELSE "rt_83",
                  [loc EXCEPT !.zero_map = [k \in 1..NumIdx |-> 0],
                              !.one_map = [k \in 1..NumIdx |-> 0],
                              !.samp = 0],
                  hw_delay, hw_offset,
                  <<HwCall("init_meas", hw_delay, hw_offset)>>, <<>>, FALSE)
       \/ /\ pc = "rt_72"
          /\ Check("rt_72", "rt_75", loc)
       \/ /\ pc = "rt_75"
          /\ \E read_cnt \in {ReadCnt + 1} :
                Step(IF loc.samp + 1 < cfg.num_samp THEN "rt_72" ELSE "rt_83",
                     [loc EXCEPT
                        !.zero_map = [k \in 1..NumIdx |->
                            @[k] + (IF OutChar(k - 1, read_cnt) = "0" THEN 1 ELSE 0)],
                        !.one_map = [k \in 1..NumIdx |->
                            @[k] + (IF OutChar(k - 1, read_cnt) = "0" THEN 0 ELSE 1)],
                        !.samp = @ + 1],
                     hw_delay, hw_offset,
                     <<HwCall("read_output", hw_delay, hw_offset)>>, <<>>, FALSE)
       \/ /\ pc = "rt_83"
          /\ \E r \in {ReadTraceAns(loc.zero_map, loc.one_map)} :
                IF r.raised # ""
                THEN Raise(r.raised)
                ELSE Local("ev_110",
                           [loc EXCEPT !.ans = r.ans, !.zero_map = <<>>,
                                       !.one_map = <<>>, !.samp = 0],
                           <<>>)

\* TracePlotBase.run, step by step
TracePlotBase_run ==
    /\ search = "TracePlotBase"
    /\ \/ /\ pc = "run"
          /\ Step("run_144",
                  [loc EXCEPT !.init_delay = hw_delay, !.init_offset = hw_offset,
                              !.guess_idx = GuessIdx(cfg.num_y, cfg.y_guess),
                              !.t_idx = 0],
                  hw_delay, hw_offset,
                  <<HwCall("get_delay", hw_delay, hw_offset),
                    HwCall("get_offset", hw_delay, hw_offset)>>, <<>>, FALSE)
       \/ /\ pc = "run_144"
          /\ IF loc.t_idx < cfg.num_t
             THEN Check("run_145", "run_149", loc)
             ELSE Local("finally", loc, <<>>)
       \/ /\ pc = "run_149"
          /\ Step("run_154",
                  [loc EXCEPT !.bot_edge_intv = [k \in 1..NumIdx |-> <<0, cfg.num_y>>],
                              !.top_edge_intv = [k \in 1..NumIdx |-> <<0, cfg.num_y>>],
                              !.cur_idx = 0],
                  TVal(loc.t_idx), hw_offset,
                  <<HwCall("set_delay", TVal(loc.t_idx), hw_offset)>>, <<>>, FALSE)
       \/ /\ pc = "run_154"
          /\ IF loc.cur_idx < NumIdx
             THEN Local("fe_123", [loc EXCEPT !.is_bot = TRUE], <<>>)
             ELSE Local("run_144", [loc EXCEPT !.t_idx = @ + 1, !.cur_idx = 0], <<>>)
       \/ /\ pc = "run_159"
          /\ \E bot_edge \in {loc.bot_edge_intv[loc.cur_idx + 1][1]} :
             \E top_edge \in {loc.top_edge_intv[loc.cur_idx + 1][1]} :
                Local("run_154", [loc EXCEPT !.cur_idx = @ + 1],
                      SendMarks(loc.t_idx, 0, bot_edge + 1, loc.cur_idx, -1)
                      \o SendMarks(loc.t_idx, bot_edge + 1, top_edge, loc.cur_idx, 0)
                      \o SendMarks(loc.t_idx, 0, top_edge, loc.cur_idx, 1))
       \/ RunFinally

\* the traces the hardware shows: offsets from band[1] + 1 up to band[2] - 1
\* alternate, those below read 0, those above read 1
Bands(num_y) == {<<lo, hi>> : lo \in -1..(num_y - 1), hi \in {0, num_y}}

\* the deserializer layouts: range(output_len - 1 - parity, -1, -num_des)
StrIdxLists == {<<0>>, <<1, 0>>, <<1>>}

\* a WorkerThread was made for a TracePlotBase and started
InitTrace ==
    /\ search = "TracePlotBase"
    /\ \E num_t \in 1..MaxT, num_y \in 1..MaxY, num_samp \in {0, 2} :
       \E band \in Bands(num_y), str_idx_list \in StrIdxLists :
          cfg = [num_t |-> num_t, num_y |-> num_y, num_samp |-> num_samp,
                 band |-> band, str_idx_list |-> str_idx_list,
                 y_guess |-> <<>>] @@ TraceConfig
    /\ pc = "run"
    /\ loc = NoLocals
    /\ InitHardware

\* no FPGA object takes part in a search
IdleBackend ==
    /\ backend = "none"
    /\ fake_scan = FALSE
    /\ check_scan = FALSE
    /\ chain_value = DefaultValue
    /\ callbacks = <<>>
    /\ scan_file = ScanFile
    /\ has_fpga = FALSE
    /\ read_pre_bytes = 0
    /\ read_post_bytes = 0
    /\ scan_value = ScanDefaults(ScanFile)
    /\ pre_data = <<>>
    /\ post_data = <<>>
    /\ scan_callbacks = <<>>
    /\ last = NoCall

InitSearch ==
    /\ IdleBackend
    /\ IdleThreads
    /\ (InitEye \/ InitTrace)

NextSearch ==
    \/ EyePlotBase_run
    \/ read_error
    \/ bin_search_eye_edge
    \/ flood_search_eye_edge
    \/ TracePlotBase_run
    \/ find_edge
    \/ eval_y
    \/ read_trace
    \/ set_stop

SpecSearch == InitSearch /\ [][NextSearch]_vars

\* the steps of the worker thread
WorkerNext ==
    \/ EyePlotBase_run
    \/ read_error
    \/ bin_search_eye_edge
    \/ flood_search_eye_edge
    \/ TracePlotBase_run
    \/ find_edge
    \/ eval_y
    \/ read_trace

\* the worker is a running thread: it goes on stepping until run returns
SpecSearchLive == InitSearch /\ [][NextSearch]_vars /\ WF_vars(WorkerNext)

(***************************************************************************)
(* Properties of both searches.                                             *)
(***************************************************************************)

\* the delay and offset get_delay and get_offset returned when run started
DelayRead == hw_log[1].delay
OffsetRead == hw_log[2].offset

\* C16: when EyePlotBase.run or TracePlotBase.run ends, by completion, by
\* cancellation at any point or by an error, its last two hardware calls are
\* set_delay and set_offset, once each, with the values get_delay and
\* get_offset returned at the start, and no oracle call or other set_delay or
\* set_offset follows them
C16_TeardownRestores ==
    (search # "none" /\ pc \in {"finally_2", "done"}) =>
        /\ hw_log[1].call = "get_delay" /\ hw_log[2].call = "get_offset"
        /\ DelayRead = 3 /\ OffsetRead = 7
        /\ pc = "finally_2" =>
              hw_log[Len(hw_log)] = HwCall("set_delay", DelayRead, hw_offset)
        /\ pc = "done" =>
              /\ Len(hw_log) >= 4
              /\ hw_log[Len(hw_log) - 1].call = "set_delay"
              /\ hw_log[Len(hw_log) - 1].delay = DelayRead
              /\ hw_log[Len(hw_log)] = HwCall("set_offset", DelayRead, OffsetRead)
              /\ hw_delay = DelayRead /\ hw_offset = OffsetRead

\* an eye search cancelled in the middle of its second column ended with the
\* hardware back at its first delay and offset
C16_Witness ==
    /\ search = "EyePlotBase" /\ pc = "done" /\ stop
    /\ loc.t_idx = 1
    /\ \E i \in 1..Len(hw_log) : /\ hw_log[i].call = "read_output"
                                 /\ hw_log[i].delay = TVal(1)
                                 /\ hw_log[i].offset # OffsetRead
    /\ hw_delay = 3 /\ hw_offset = 7

\* C17: every oracle call (init_error_meas, init_meas, read_output,
\* read_error_count) is directly preceded by a test of the stop flag that
\* found it clear; once the flag is set at most one further oracle call
\* starts, and the run returns
C17_StopChecked ==
    /\ [](unchecked_calls = 0 /\ calls_after_stop <= 1)
    /\ (stop ~> pc = "done")

\* the flag was set between a test and the oracle call behind it: the call was
\* made, the next test unwound the search and the run returned
C17_Witness ==
    /\ search # "none" /\ stop /\ pc = "done"
    /\ calls_after_stop = 1
    /\ hw_log[Len(hw_log) - 2].call \in OracleCalls

(***************************************************************************)
(* Properties of the eye search.                                            *)
(***************************************************************************)

\* column t_idx was swept to its end
ColumnDone(t_idx) == search = "EyePlotBase" /\ loc.t_idx > t_idx

\* the offset index the sweep of column t_idx started from: the first
\* message of the column is the focus message of the guess
ColumnGuess(t_idx) ==
    LET first == CHOOSE i \in 1..Len(sent) :
                    /\ sent[i].t_idx = t_idx
                    /\ \A j \in 1..(i - 1) : sent[j].t_idx # t_idx
    IN sent[first].y_idx

\* the measurements started in column t_idx at offset index y_idx
ProbesAt(t_idx, y_idx) ==
    {i \in 1..Len(hw_log) : /\ hw_log[i].call = "init_error_meas"
                            /\ hw_log[i].delay = TVal(t_idx)
                            /\ hw_log[i].offset = YVal(y_idx)}

\* the measurements started in column t_idx
Probes(t_idx) ==
    {i \in 1..Len(hw_log) : /\ hw_log[i].call = "init_error_meas"
                            /\ hw_log[i].delay = TVal(t_idx)}

\* the messages sent for column t_idx that record a result
Recorded(t_idx) ==
    {i \in 1..Len(sent) : sent[i].t_idx = t_idx /\ sent[i].val # FocusVal}

\* every index of column t_idx is recorded, and only with zero errors
AllErrorFree(t_idx) ==
    /\ \A y_idx \in 0..(cfg.num_y - 1) :
          \E i \in Recorded(t_idx) : sent[i].y_idx = y_idx
    /\ \A i \in Recorded(t_idx) : sent[i].val.cnt = 0

\* a column whose oracle reports zero errors everywhere, swept from the
\* guess num_y // 2
CleanColumn(t_idx) ==
    /\ ColumnDone(t_idx)
    /\ cfg.eye[t_idx + 1] = 0..(cfg.num_y - 1)
    /\ ColumnGuess(t_idx) = cfg.num_y \div 2

\* the probes of a binary search over n indices that finds the eye at each
\* of them: towards the bottom and towards the top
RECURSIVE DownSteps(_)
DownSteps(n) == IF n <= 0 THEN 0 ELSE 1 + DownSteps(n \div 2)

RECURSIVE UpSteps(_)
UpSteps(n) == IF n <= 0 THEN 0 ELSE 1 + UpSteps((n - 1) \div 2)

\* C19 as stated: on a column of N indices whose oracle reports zero errors
\* everywhere, swept from the guess N // 2, every index is recorded with zero
\* errors and exactly 2 probes are made beyond the probe of the guess
C19_TwoProbes ==
    \A t_idx \in 0..(MaxT - 1) :
        CleanColumn(t_idx) =>
            /\ AllErrorFree(t_idx)
            /\ Cardinality(Probes(t_idx)) = 1 + 2

\* C19 amended: on such a column every index is recorded with zero errors,
\* no index is probed twice, and beyond the probe of the guess g = N // 2 the
\* sweep makes one probe per step of its two binary searches: floor(log2(g))
\* + 1 below the guess when g >= 1 and floor(log2(N - g)) above it
C19_BinarySearchProbes ==
    \A t_idx \in 0..(MaxT - 1) :
        CleanColumn(t_idx) =>
            /\ AllErrorFree(t_idx)
            /\ \A y_idx \in 0..(cfg.num_y - 1) : Cardinality(ProbesAt(t_idx, y_idx)) <= 1
            /\ Cardinality(Probes(t_idx)) =
                  1 + DownSteps(cfg.num_y \div 2)
                    + UpSteps(cfg.num_y - 1 - cfg.num_y \div 2)

\* a clean column of four indices was swept with three probes beyond the guess
C19_Witness ==
    /\ CleanColumn(0)
    /\ cfg.num_y = 4
    /\ Cardinality(Probes(0)) = 4
    /\ AllErrorFree(0)

\* a column whose oracle reports errors everywhere
NoisyColumn(t_idx) ==
    /\ search = "EyePlotBase"
    /\ t_idx < cfg.num_t
    /\ cfg.eye[t_idx + 1] = {}

\* C20: on a column whose oracle reports errors everywhere the flood search
\* probes every index other than the guess exactly once and none outside
\* 0..N-1, returns -1, no max-error or error-free fill message is sent for
\* the column, and the sweep goes on to the next column with the guess unchanged
C20_FloodSearchExhausts ==
    \A t_idx \in 0..(MaxT - 1) :
        NoisyColumn(t_idx) =>
            /\ \A i \in Probes(t_idx) :
                  \E y_idx \in 0..(cfg.num_y - 1) : hw_log[i].offset = YVal(y_idx)
            /\ \A y_idx \in 0..(cfg.num_y - 1) : Cardinality(ProbesAt(t_idx, y_idx)) <= 1
            /\ \A i \in Recorded(t_idx) : sent[i].val.ber = "ber" /\ sent[i].val.cnt > 0
            /\ (loc.t_idx = t_idx /\ pc = "run_152") =>
                  /\ loc.edge_idx = -1
                  /\ \A y_idx \in 0..(cfg.num_y - 1) :
                        Cardinality(ProbesAt(t_idx, y_idx)) = 1
            /\ (loc.t_idx = t_idx + 1 /\ pc = "run_123") =>
                  /\ \A y_idx \in 0..(cfg.num_y - 1) :
                        Cardinality(ProbesAt(t_idx, y_idx)) = 1
                  /\ loc.guess_idx = ColumnGuess(t_idx)

\* the second column of four indices, all in error, was swept from a guess
\* the first column had moved, and the sweep went on
C20_Witness ==
    /\ NoisyColumn(1)
    /\ cfg.num_y = 4
    /\ loc.t_idx = 2 /\ pc = "run_123"
    /\ ColumnGuess(1) = 1
    /\ loc.guess_idx = 1
    /\ Cardinality(Probes(1)) = 4
    /\ ~stop

(***************************************************************************)
(* The GUI thread and a WorkerThread share one Controller and its FPGABase. *)
(* update_scan blocks in the transport between reading the registry and     *)
(* writing it back; a thread in update_scan is at "transport" until the      *)
(* transport returns.                                                        *)
(***************************************************************************)

\* the chains a display frame shows: disp_frame.chain_names
DisplayedChains == <<"ctrl", "pins">>

\* update_scan lines 282-301: the values of the chain are read from the
\* registry and handed to the transport
EnterUpdate(cv, chain_name, todo) ==
    [pc |-> "transport", chain |-> chain_name, value |-> ValueList(cv, chain_name),
     todo |-> todo]

\* update_scan lines 303-313: the registry once the transport has returned
LeaveUpdate(cv, chain_name, value, output, check) ==
    IF LengthMismatch(value, output)
    THEN [chain_value |-> cv, outcome |-> "LengthError"]
    ELSE IF check /\ ~check_scan_success(chain_name, value, output)
    THEN [chain_value |-> cv, outcome |-> "CheckError"]
    ELSE [chain_value |-> WriteBack(cv, chain_name, output), outcome |-> "ok"]

\* ControlFrame._update_scan: a widget was edited
gui_update_scan ==
    /\ backend = "FPGABase"
    /\ thread_at["gui"].pc = "idle"
    /\ \E chain_name \in ChainNames :
       \E bus_name \in BusNames(chain_name) :
       \E val \in 0..(2^chain_blen[chain_name][bus_name] - 1) :
          /\ chain_value[chain_name][bus_name] # val
          /\ \E cv \in {StoreScan(chain_value, chain_name, bus_name, val)} :
                /\ chain_value' = cv
                /\ thread_at' = [thread_at EXCEPT !["gui"] = EnterUpdate(cv, chain_name, <<>>)]
    /\ UNCHANGED <<backend, fake_scan, check_scan, callbacks, scan_vars, last, search_vars>>

\* the refresh timer fired: _refresh_display updates every displayed chain
gui_refresh_display ==
    /\ backend = "FPGABase"
    /\ thread_at["gui"].pc = "idle"
    /\ thread_at' = [thread_at EXCEPT !["gui"] = EnterUpdate(chain_value, Head(DisplayedChains),
                                               Tail(DisplayedChains))]
    /\ UNCHANGED <<backend, fpga_vars, scan_vars, last, search_vars>>

\* the function the worker thread runs calls update_scan on the controller's
\* FPGABase
worker_update_scan ==
    /\ backend = "FPGABase"
    /\ thread_at["worker"].pc = "idle"
    /\ \E chain_name \in ChainNames :
          thread_at' = [thread_at EXCEPT !["worker"] = EnterUpdate(chain_value, chain_name, <<>>)]
    /\ UNCHANGED <<backend, fpga_vars, scan_vars, last, search_vars>>

\* the transport returns to a thread: update_scan writes the registry back,
\* and _refresh_display goes on with the next chain
update_scan_returns ==
    /\ backend = "FPGABase"
    /\ \E th \in Threads :
          /\ thread_at[th].pc = "transport"
          /\ \E output \in TransportReturns(thread_at[th].chain, thread_at[th].value) :
             \E r \in {LeaveUpdate(chain_value, thread_at[th].chain, thread_at[th].value, output,
                                   check_scan)} :
                /\ chain_value' = r.chain_value
                /\ thread_at' = [thread_at EXCEPT ![th] =
                            IF r.outcome = "ok" /\ thread_at[th].todo # <<>>
                            THEN EnterUpdate(r.chain_value, Head(thread_at[th].todo),
                                             Tail(thread_at[th].todo))
                            ELSE IdleAt]
    /\ UNCHANGED <<backend, fake_scan, check_scan, callbacks, scan_vars, last, search_vars>>

\* the application was started with a real transport
InitThreads ==
    /\ backend = "FPGABase"
    /\ fake_scan = FALSE
    /\ check_scan \in BOOLEAN
    /\ chain_value = DefaultValue
    /\ callbacks = <<>>
    /\ scan_file = ScanFile
    /\ has_fpga = FALSE
    /\ read_pre_bytes = 0
    /\ read_post_bytes = 0
    /\ scan_value = ScanDefaults(ScanFile)
    /\ pre_data = <<>>
    /\ post_data = <<>>
    /\ scan_callbacks = <<>>
    /\ last = NoCall
    /\ IdleSearch
    /\ IdleThreads

NextThreads ==
    \/ gui_update_scan
    \/ gui_refresh_display
    \/ worker_update_scan
    \/ update_scan_returns

SpecThreads == InitThreads /\ [][NextThreads]_vars

\* the threads whose update_scan is in its transport operation
InFlight == {th \in Threads : thread_at[th].pc = "transport"}

\* C18: at most one update_scan is in flight on the transport at any time,
\* also when the GUI thread and a worker thread drive the same FPGABase
C18_OneInFlight == Cardinality(InFlight) <= 1

(***************************************************************************)
(* Construction of the registries: FPGABase.__init__ and Scan.__init__.    *)
(* A definition file is the list of its chains in file order; a chain is   *)
(* its name, its addr, whether it carries an attribute nbits of its own    *)
(* and its content, the list of its buses; a bus is its name, its nbits    *)
(* and its value, <<>> when the file gives none.                           *)
(***************************************************************************)
\* the definition files FPGABase is constructed from: the two chains of
\* chain_order, in either address order, each with or without an attribute
\* nbits, the second bus of ctrl named as in chain_order or as the first;
\* a bus of nbits bits is given no value, a value of its range, -1 or a
\* value at or above 2^nbits
Definitions ==
    LET FileValues(nbits) ==
          {<<>>} \cup {<<v>> : v \in (-1 .. 2^nbits - 1) \cup {2^nbits - 1 + MaxSetExcess}}
    IN
    {<<[name |-> "ctrl", addr |-> a, has_nbits |-> r1,
        content |-> <<[name |-> "en", nbits |-> 1, value |-> v1],
                      [name |-> n2, nbits |-> 2, value |-> v2]>>],
       [name |-> "pins", addr |-> 1 - a, has_nbits |-> r2,
        content |-> <<[name |-> "io", nbits |-> 1, value |-> v3]>>]>> :
       a \in {0, 1}, r1 \in BOOLEAN, r2 \in BOOLEAN, n2 \in {"en", "gain"},
       v1 \in FileValues(1), v2 \in FileValues(2), v3 \in FileValues(1)}

\* d[key] = val on a Python dict
DictPut(d, key, val) ==
    [k \in DOMAIN d \cup {key} |-> IF k = key THEN val ELSE d[k]]

\* lines 85-91: the loop over chain_info['content'], from the dicts acc of
\* the chain; the default of a bus is bus_info.get('value', 0)
RECURSIVE LoadContent(_, _)
LoadContent(content, acc) ==
    IF content = <<>> THEN acc
    ELSE LET bus_info == Head(content)
             BusDefault(info) == IF info.value = <<>> THEN 0 ELSE info.value[1]
         IN
         LoadContent(Tail(content),
           [chain_nbits |-> acc.chain_nbits + bus_info.nbits,
            chain_order |-> Append(acc.chain_order, bus_info.name),
            chain_value |-> DictPut(acc.chain_value, bus_info.name, BusDefault(bus_info)),
            chain_blen |-> DictPut(acc.chain_blen, bus_info.name, bus_info.nbits)])

ReservedIgnored(chain_info) == FALSE

\* line 93: 'nbits' in chain_info
Reserved(chain_info) == chain_info.has_nbits

\* line 101: the chain names sorted by addr (the addrs of a file differ)
RECURSIVE SortedByAddr(_)
SortedByAddr(chain_sort) ==
    IF chain_sort = {} THEN <<>>
    ELSE LET first == CHOOSE x \in chain_sort : \A y \in chain_sort : x[1] <= y[1]
         IN <<first[2]>> \o SortedByAddr(chain_sort \ {first})

\* lines 79-99: the loop over the chains of the file; the raise of line 94
\* ends the constructor, the chains before it being stored in self
RECURSIVE LoadChains(_, _)
LoadChains(chains, self) ==
    IF chains = <<>> THEN self
    ELSE LET chain_info == Head(chains)
             c == LoadContent(chain_info.content,
                              [chain_value |-> <<>>, chain_order |-> <<>>,
                               chain_blen |-> <<>>, chain_nbits |-> 0])
         IN IF Reserved(chain_info)
            THEN [self EXCEPT !.outcome = "ValueError"]
            ELSE LoadChains(Tail(chains),
                   [self EXCEPT
                      !.chain_value = DictPut(@, chain_info.name, c.chain_value),
                      !.chain_order = DictPut(@, chain_info.name, c.chain_order),
                      !.chain_blen = DictPut(@, chain_info.name, c.chain_blen),
                      !.chain_nbits = DictPut(@, chain_info.name, c.chain_nbits)])

\* FPGABase.__init__ as a function of the definition file: how it ends and
\* the fields of self, empty before the loop (lines 65-72)
FPGABaseInit(definition) ==
    LET self == LoadChains(definition,
                           [outcome |-> "ok", chain_value |-> <<>>, chain_order |-> <<>>,
                            chain_blen |-> <<>>, chain_nbits |-> <<>>,
                            chain_names |-> <<>>])
    IN
      IF self.outcome # "ok" THEN self
      ELSE [self EXCEPT !.chain_names =
              SortedByAddr({<<definition[k].addr, definition[k].name>> :
                              k \in 1..Len(definition)})]

\* FPGABase(scan_file, fake_scan, check_scan), the first call of a run: the
\* caller gets the object when __init__ returns, and none when it raises
FPGABase_init ==
    /\ backend = "none"
    /\ last = NoCall
    /\ \E definition \in Definitions, fake \in BOOLEAN, check \in BOOLEAN :
       \E self \in {FPGABaseInit(definition)} :
         /\ last' = [NoCall EXCEPT !.op = "FPGABase_init", !.sent = definition,
                        !.outcome = self.outcome, !.output = self]
         /\ IF self.outcome = "ok"
            THEN /\ backend' = "FPGABase"
                 /\ chain_value' = self.chain_value
                 /\ fake_scan' = fake
                 /\ check_scan' = check
                 /\ callbacks' = <<>>
            ELSE UNCHANGED <<backend, fpga_vars>>
    /\ UNCHANGED ext_vars
    /\ UNCHANGED scan_vars

\* the scan chain files Scan is constructed from: the two lines of ScanFile,
\* the second bus named as in ScanFile or as the first, each default in the
\* bus's range, -1 or at or above 2^numbits
ScanFiles ==
    LET DefVals(numbits) == (-1 .. 2^numbits - 1) \cup {2^numbits - 1 + MaxSetExcess}
    IN
    {<<[name |-> "a", defval |-> d1, numbits |-> 1],
       [name |-> n2, defval |-> d2, numbits |-> 2]>> :
       n2 \in {"a", "b"}, d1 \in DefVals(1), d2 \in DefVals(2)}

\* lines 50-61: self._value after the loop over the lines of the file
RECURSIVE ScanLoad(_, _)
ScanLoad(file, value) ==
    IF file = <<>> THEN value
    ELSE ScanLoad(Tail(file), DictPut(value, Head(file).name, Head(file).defval))

\* Scan(None, fname, pre_bytes, post_bytes): the lines of the file are
\* stored as they are read and write_twice (line 66) fills the prefix and
\* the suffix with zeros
Scan_init ==
    /\ backend = "none"
    /\ last = NoCall
    /\ \E file \in ScanFiles, pre \in {0, MaxExtraBytes}, post \in {0, MaxExtraBytes} :
       \E r \in {WriteTwice(file, FALSE, pre, post,
                            [value |-> ScanLoad(file, <<>>), pre_data |-> <<>>,
                             post_data |-> <<>>], <<>>, <<>>, 0)} :
         /\ backend' = "Scan"
         /\ scan_file' = file
         /\ has_fpga' = FALSE
         /\ read_pre_bytes' = pre
         /\ read_post_bytes' = post
         /\ scan_value' = r.value
         /\ pre_data' = r.pre_data
         /\ post_data' = r.post_data
         /\ scan_callbacks' = <<>>
         /\ last' = [NoCall EXCEPT !.op = "Scan_init", !.sent = file,
                        !.outcome = r.outcome, !.io = r.io]
    /\ UNCHANGED ext_vars
    /\ UNCHANGED fpga_vars

\* before any object is constructed
InitLoad ==
    /\ backend = "none"
    /\ fake_scan = FALSE
    /\ check_scan = FALSE
    /\ chain_value = <<>>
    /\ callbacks = <<>>
    /\ scan_file = <<>>
    /\ has_fpga = FALSE
    /\ read_pre_bytes = 0
    /\ read_post_bytes = 0
    /\ scan_value = <<>>
    /\ pre_data = <<>>
    /\ post_data = <<>>
    /\ scan_callbacks = <<>>
    /\ last = NoCall
    /\ IdleSearch
    /\ IdleThreads

NextLoad == FPGABase_init \/ Scan_init

SpecLoad == InitLoad /\ [][NextLoad]_vars

\* the chains of a definition file
ChainsOf(definition) == {definition[k] : k \in 1..Len(definition)}

\* a bus name occurs twice in the content of the chain
RepeatedName(chain_info) ==
    \E i, j \in 1..Len(chain_info.content) :
      i # j /\ chain_info.content[i].name = chain_info.content[j].name

\* a default of the chain is outside 0 .. 2^nbits - 1
DefaultOutOfRange(chain_info) ==
    \E i \in 1..Len(chain_info.content) :
      LET bus_info == chain_info.content[i] IN
        bus_info.value # <<>> /\ IllegalScanValue(bus_info.value[1], bus_info.nbits)

\* C21: constructing an FPGABase from a definition in which some chain has
\* an attribute nbits of its own raises, and the caller gets no registry: no
\* object exists and no chain of the file is stored anywhere
C21_ReservedRejected ==
    (last.op = "FPGABase_init" /\ \E c \in ChainsOf(last.sent) : c.has_nbits)
      => /\ last.outcome = "ValueError"
         /\ backend = "none"
         /\ chain_value = <<>>

\* the second chain of the file has the attribute: the first chain was read
\* and stored in self before the raise
C21_Witness ==
    /\ last.op = "FPGABase_init"
    /\ ~last.sent[1].has_nbits
    /\ last.sent[2].has_nbits
    /\ last.outcome = "ValueError"
    /\ last.output.chain_value # <<>>
    /\ backend = "none"

\* C22: constructing the registry from a definition in which a bus name
\* repeats within the content of one chain fails with a validation error
C22_RepeatRejected ==
    (last.op = "FPGABase_init" /\ \E c \in ChainsOf(last.sent) : RepeatedName(c))
      => last.outcome = "ValueError"

\* C23: constructing a registry from a file in which the default of some
\* bus is negative or at least 2^nbits fails with a validation error
C23_DefaultsValidated ==
    /\ (last.op = "FPGABase_init" /\ \E c \in ChainsOf(last.sent) : DefaultOutOfRange(c))
         => last.outcome = "ValueError"
    /\ (last.op = "Scan_init"
          /\ \E k \in 1..Len(last.sent) :
               IllegalScanValue(last.sent[k].defval, last.sent[k].numbits))
         => last.outcome = "ValueError"

(***************************************************************************)
(* FPGABase.set_scan_from_file.  scan_dict, the file's scan_content, is    *)
(* the list of its chains in file order, each a pair of the chain's name   *)
(* and the dict of its values.  The calls of set_scan and update_scan are  *)
(* logged in the order they are made.                                      *)
(***************************************************************************)
\* the files set_scan_from_file is tried with: one or both chains, in
\* either order.  A chain that can be written has a dict of up to MaxDict
\* items, each a value of DictVals for one of its buses or the value 1 for
\* a bus it does not have; a read-only chain has the value 1 for its buses.
ScanDicts ==
    LET items(c) == IF \A b \in BusNames(c) : is_scan_read_only(c, b)
                    THEN BusNames(c) \X {1}
                    ELSE (BusNames(c) \X DictVals) \cup {<<UnknownBus, 1>>}
        dicts(c) == {d \in SeqsUpTo(items(c), MaxDict) :
                       /\ Len(d) >= 1
                       /\ \A i, j \in 1..Len(d) : i # j => d[i][1] # d[j][1]}
    IN UNION {{<<<<c, d>>>> : d \in dicts(c)} : c \in ChainNames}
         \cup UNION {{<<<<p[1], d1>>, <<p[2], d2>>>> : d1 \in dicts(p[1]), d2 \in dicts(p[2])} :
                       p \in {q \in ChainNames \X ChainNames : q[1] # q[2]}}

\* lines 335-339: the loop over the items of one chain; st holds the
\* registry, the calls made, the flag changed and how the loop ended.
\* get_scan raises for a bus the chain does not have, set_scan for a value
\* out of range, the items before it staying set.
RECURSIVE StageChain(_, _, _)
StageChain(st, chain_name, chain_values) ==
    IF chain_values = <<>> THEN st
    ELSE LET key == Head(chain_values)[1]
             val == Head(chain_values)[2]
         IN IF is_scan_read_only(chain_name, key)
            THEN StageChain(st, chain_name, Tail(chain_values))
            ELSE IF key \notin DOMAIN st.chain_value[chain_name]
            THEN [st EXCEPT !.outcome = "KeyError"]
            ELSE IF val = st.chain_value[chain_name][key]
            THEN StageChain(st, chain_name, Tail(chain_values))
            ELSE LET r == SetScan(st.chain_value, chain_name, key, val)
                     st2 == [st EXCEPT !.changed = TRUE,
                               !.chain_value = r.chain_value,
                               !.outcome = r.outcome,
                               !.calls = Append(@, [call |-> "set_scan", chain |-> chain_name,
                                                    bus |-> key, value |-> val])]
                 IN IF r.outcome # "ok" THEN st2
                    ELSE StageChain(st2, chain_name, Tail(chain_values))

NeedsUpdateAlways(st) == TRUE

\* line 340: if changed
NeedsUpdate(st) == st.changed

\* the ways the update_scan of line 341 can go: one for each list the
\* transport may return and each callback that may raise
FileUpdates(st, cbs, fake, always, chain_name) ==
    {UpdateScan(st.chain_value, cbs, fake, always, chain_name, FALSE, returned, raise_at) :
       returned \in IF fake THEN {<<>>}
                    ELSE TransportReturns(chain_name, ValueList(st.chain_value, chain_name)),
       raise_at \in 0..Len(cbs)}

\* lines 334-341: the loop over the chains of the file, as the set of the
\* ways it can go.  A set_scan, get_scan or update_scan that raises ends
\* the call.
RECURSIVE SetScanFromFile(_, _, _, _, _)
SetScanFromFile(self, cbs, fake, always, scan_dict) ==
    IF scan_dict = <<>> THEN {self}
    ELSE LET chain_name == Head(scan_dict)[1]
             More(st) == SetScanFromFile(st, cbs, fake, always, Tail(scan_dict))
             After(st, u) == [st EXCEPT !.chain_value = u.chain_value,
                                !.outcome = u.outcome,
                                !.io = @ \o u.io,
                                !.notified = @ \o u.notified,
                                !.calls = Append(@, [call |-> "update_scan",
                                                     chain |-> chain_name])]
         IN UNION {IF st.outcome # "ok" THEN {st}
                   ELSE IF ~NeedsUpdate(st) THEN More(st)
                   ELSE UNION {IF u.outcome # "ok" THEN {After(st, u)}
                               ELSE More(After(st, u)) :
                                 u \in FileUpdates(st, cbs, fake, always, chain_name)} :
                     st \in {StageChain([self EXCEPT !.changed = FALSE], chain_name,
                                        Head(scan_dict)[2])}}

set_scan_from_file ==
    /\ backend = "FPGABase"
    /\ \E scan_dict \in ScanDicts :
       \E r \in SetScanFromFile([chain_value |-> chain_value, outcome |-> "ok",
                                 calls |-> <<>>, io |-> <<>>, notified |-> <<>>,
                                 changed |-> FALSE],
                                callbacks, fake_scan, check_scan, scan_dict) :
         /\ chain_value' = r.chain_value
         /\ last' = [NoCall EXCEPT !.op = "set_scan_from_file", !.sent = scan_dict,
                        !.outcome = r.outcome, !.before = chain_value,
                        !.output = r.calls, !.io = r.io, !.notified = r.notified]
    /\ UNCHANGED ext_vars
    /\ UNCHANGED <<backend, fake_scan, check_scan, callbacks, scan_vars>>

NextFile == set_scan \/ set_scan_from_file

SpecFile == InitFPGABase /\ [][NextFile]_vars

\* the calls a set_scan_from_file made, in order
FileCalls == last.output

\* the positions in the log of the calls of one kind for a chain
CallsOf(kind, c) ==
    {k \in 1..Len(FileCalls) : FileCalls[k].call = kind /\ FileCalls[k].chain = c}

\* the elements of s at the positions idx, in the order of s
PickAt(s, idx) ==
    [n \in 1..Cardinality(idx) |->
       s[CHOOSE k \in idx : Cardinality({j \in idx : j < k}) = n - 1]]

\* the items of a chain's dict that name a bus of the chain that is not
\* read-only with a value other than the bus had before the call, in file
\* order
DifferingItems(c, d) ==
    PickAt(d, {i \in 1..Len(d) : /\ ~is_scan_read_only(c, d[i][1])
                                 /\ d[i][1] \in DOMAIN last.before[c]
                                 /\ d[i][2] # last.before[c][d[i][1]]})

\* the set_scan calls made for the chain, in the order made
WrittenItems(c) ==
    LET calls == PickAt(FileCalls, CallsOf("set_scan", c))
    IN [k \in 1..Len(calls) |-> <<calls[k].bus, calls[k].value>>]

IsPrefix(s, t) == Len(s) <= Len(t) /\ s = SubSeq(t, 1, Len(s))

C25_FileErrorLeavesState ==
    (last.op = "set_scan_from_file"
       /\ last.outcome \in {"RangeError", "LookupError", "KeyError"})
      => chain_value = last.before

\* C26: when a transport call of an update raises (update_pins or
\* scan_in_and_read_out in update_scan, a write_ints or read_ints in
\* write_twice), the call ends with that error, the raising call is the last
\* transport call it makes, no value of the registry changes and no
\* callback is called
C26_TransportErrorPropagates ==
    [][(last'.outcome = "TransportError" /\ last'.op \in {"update_scan", "write_twice"})
         => /\ chain_value' = chain_value
            /\ scan_value' = scan_value
            /\ pre_data' = pre_data
            /\ post_data' = post_data
            /\ last'.notified = <<>>
            /\ last'.raised >= 1
            /\ Len(last'.io) = last'.raised
            /\ last'.op = "update_scan" =>
                 last'.io = TransportCalls(fake_scan, last'.chain,
                                           ValueList(chain_value, last'.chain))
            /\ last'.op = "write_twice" =>
                 \A k \in 1..Len(last'.io) :
                   last'.io[k].call = IF k % 2 = 1 THEN "write_ints" ELSE "read_ints"]_vars

\* the transport call of an update_scan raised, with a callback registered
\* and a value set since construction
C26_Witness ==
    /\ last.op = "update_scan"
    /\ last.outcome = "TransportError"
    /\ Len(last.io) = 1
    /\ callbacks # <<>>
    /\ chain_value # DefaultValue

(***************************************************************************)
(* get_ber (math/serdes.py).  pc is the line the call is at and loc its    *)
(* arguments and the number of frames of get_ber on the Python stack.  A   *)
(* quotient is the pair of its numerator and denominator.                  *)
(***************************************************************************)
\* sys.getrecursionlimit(): the number of frames Python allows
RecursionLimit == 4

\* the arguments get_ber is called with: error counts up to 12, of which 11
\* and 12 are above the small counts of line 30, and no bits, one or more
BerArgs == [confidence : {95}, ntot : 0..2, nerr : 0..12]

\* line 30: nerr <= 10
Recurses(nerr) == nerr <= 10

BerUnchanged ==
    UNCHANGED <<backend, fpga_vars, scan_vars, thread_at, search, cfg, stop, hw_delay,
                hw_offset, hw_log, sent, checked, unchecked_calls, calls_after_stop>>

\* lines 29-33.  The call of line 31 has the arguments of its caller, so
\* every frame is at line 31 until Python refuses a new frame; the
\* RecursionError then leaves every frame, nothing catching it.
get_ber ==
    /\ backend = "none"
    /\ search = "none"
    /\ \/ /\ pc \in {"idle", "done"}
          /\ \E args \in BerArgs :
               /\ pc' = "gb_30"
               /\ loc' = [confidence |-> args.confidence, ntot |-> args.ntot,
                          nerr |-> args.nerr, frames |-> 1]
               /\ last' = [NoCall EXCEPT !.op = "get_ber", !.outcome = "running",
                              !.sent = <<args.confidence, args.ntot, args.nerr>>]
       \/ /\ pc = "gb_30"
          /\ Recurses(loc.nerr)
          /\ pc' = "gb_31"
          /\ UNCHANGED <<loc, last>>
       \/ /\ pc = "gb_31"
          /\ IF loc.frames < RecursionLimit
             THEN /\ pc' = "gb_30"
                  /\ loc' = [loc EXCEPT !.frames = @ + 1]
                  /\ UNCHANGED last
             ELSE /\ pc' = "done"
                  /\ loc' = [loc EXCEPT !.frames = 0]
                  /\ last' = [last EXCEPT !.outcome = "RecursionError"]
       \/ /\ pc = "gb_30"
          /\ ~Recurses(loc.nerr)
          /\ pc' = "done"
          /\ loc' = [loc EXCEPT !.frames = 0]
          /\ last' = IF loc.ntot = 0
                     THEN [last EXCEPT !.outcome = "ZeroDivisionError"]
                     ELSE [last EXCEPT !.outcome = "ok",
                                       !.output = <<loc.nerr, loc.ntot>>]
    /\ BerUnchanged

InitBer ==
    /\ IdleBackend
    /\ IdleSearch
    /\ IdleThreads

SpecBer == InitBer /\ [][get_ber]_vars

\* C27: a call get_ber(confidence, ntot, nerr) with nerr >= 0 ends by
\* returning a BER: the quotient nerr / ntot when nerr > 10, and the value
\* of the small counts otherwise
C27_GetBerReturns ==
    (last.op = "get_ber" /\ pc = "done" /\ last.sent[2] > 0) =>
        /\ last.outcome = "ok"
        /\ last.sent[3] > 10 => last.output = <<last.sent[3], last.sent[2]>>

\* C28: after a write_twice with an fpga whose second read returned a list r
\* of the length asked for, nbytes + pre_bytes + post_bytes, the prefix kept
\* is the first pre_bytes bytes of r, the suffix kept the last post_bytes
\* bytes, the values are decoded from the bytes in between, and prefix, body
\* and suffix make up r; also when pre_bytes or post_bytes is 0
C28_PrefixBodySuffix ==
    (/\ backend = "Scan" /\ last.op = "write_twice" /\ has_fpga
     /\ last.outcome # "TransportError"
     /\ Len(last.output) = Len(last.sent) + read_pre_bytes + read_post_bytes) =>
        LET r == last.output
            body == SubSeq(r, read_pre_bytes + 1, Len(r) - read_post_bytes)
        IN /\ pre_data = SubSeq(r, 1, read_pre_bytes)
           /\ post_data = SubSeq(r, Len(r) - read_post_bytes + 1, Len(r))
           /\ pre_data \o body \o post_data = r
           /\ Len(body) = scan_nbytes(scan_file)
           /\ last.outcome \in {"ok", "CallbackError"}
           /\ scan_value = Decode(scan_file, last.before, body)

\* a prefix but no suffix was asked for, and the list read is not all zeros
C28_Witness ==
    /\ backend = "Scan" /\ last.op = "write_twice" /\ has_fpga
    /\ last.outcome = "ok"
    /\ read_pre_bytes > 0 /\ read_post_bytes = 0
    /\ Len(last.output) = Len(last.sent) + read_pre_bytes
    /\ \E i \in 1..Len(last.output) : last.output[i] # 0
    /\ post_data = <<>>

\* an update_scan whose transport returned a list of the right length in
\* which a bus that is not read-only differs from the value sent
Mismatch ==
    /\ UpdateCalled /\ ~fake_scan
    /\ Len(last.output) = Len(last.sent)
    /\ \E i \in Differing : ~is_scan_read_only(last.chain, BusAt(i))

\* C29: update_scan runs the consistency check if and only if the caller
\* passed check = True or the object was built with check_scan = True: on a
\* mismatch it raises the consistency error in exactly these cases, and in
\* the others it writes the readback to the registry and calls the
\* callbacks, with no error of its own
C29_CheckIffRequested ==
    Mismatch =>
        /\ (last.check \/ check_scan) <=> last.outcome = "ConsistencyError"
        /\ ~(last.check \/ check_scan) =>
              /\ last.outcome \in {"ok", "CallbackError"}
              /\ ValueList(chain_value, last.chain) = last.output
              /\ chain_value # last.before
              /\ last.outcome = "ok" => NotifiedFuns = callbacks
              /\ last.outcome = "CallbackError" =>
                    (last.raised >= 1 /\ Len(last.notified) = last.raised)

\* an unchecked update that wrote a differing readback and notified two
\* callbacks
C29_Witness ==
    /\ Mismatch /\ ~last.check /\ ~check_scan
    /\ last.outcome = "ok" /\ Len(last.notified) = 2
    /\ chain_value # last.before

\* a message that marks a point as being measured: error count -1
IsMarker(m) == m.val.cnt = -1

\* the calls a step of the worker adds to the hardware log
NewCalls == {hw_log'[k] : k \in (Len(hw_log) + 1)..Len(hw_log')}

\* C30: in EyePlotBase.run every call of the oracle is made with the last
\* message sent being the marker, with error count -1, of the point the
\* hardware is set to; the message sent after a marker is the result
\* read_error returned for the same point, so it comes after the oracle's
\* calls and before the marker of any other point; and when a run that was
\* not cancelled is over, the last message is not a marker
C30_MarkerThenResult ==
    /\ [](search = "EyePlotBase" =>
            /\ \A k \in 1..(Len(sent) - 1) :
                 IsMarker(sent[k]) =>
                    /\ sent[k + 1].t_idx = sent[k].t_idx
                    /\ sent[k + 1].y_idx = sent[k].y_idx
                    /\ ~IsMarker(sent[k + 1])
            /\ (pc = "done" /\ ~stop /\ sent # <<>>) => ~IsMarker(sent[Len(sent)]))
    /\ [][search = "EyePlotBase" =>
            /\ \A c \in NewCalls :
                 c.call \in OracleCalls =>
                    /\ sent # <<>>
                    /\ IsMarker(sent[Len(sent)])
                    /\ TVal(sent[Len(sent)].t_idx) = c.delay
                    /\ YVal(sent[Len(sent)].y_idx) = c.offset
                    /\ sent' = sent
            /\ (sent # <<>> /\ IsMarker(sent[Len(sent)]) /\ sent' # sent) =>
                    /\ Len(sent') = Len(sent) + 1
                    /\ sent'[Len(sent')].val = loc.val
                    /\ hw_log # <<>>
                    /\ hw_log[Len(hw_log)].call \in OracleCalls
                    /\ hw_log[Len(hw_log)].delay = TVal(sent[Len(sent)].t_idx)
                    /\ hw_log[Len(hw_log)].offset = YVal(sent[Len(sent)].y_idx)]_vars

\* a run that was not cancelled is over: it probed at least three points,
\* one of them with errors
C30_Witness ==
    /\ search = "EyePlotBase" /\ pc = "done" /\ ~stop
    /\ Cardinality({k \in 1..Len(sent) : IsMarker(sent[k])}) >= 3
    /\ \E k \in 2..Len(sent) : IsMarker(sent[k - 1]) /\ sent[k].val.cnt > 0


(***************************************************************************)
(* The sweep of a column against any oracle: the error-free offsets of a    *)
(* column are any set of indices, and the sweep starts from any y_guess.    *)
(***************************************************************************)

\* the oracles of the columns: any set of error-free offsets, the same in
\* the columns that have an eye
AnyEyes(num_t, num_y) ==
    {[t \in 1..num_t |-> IF t \in open THEN eye ELSE {}] :
        eye \in SUBSET (0..(num_y - 1)), open \in SUBSET (1..num_t)}

\* config['y_guess']: None as <<>>, or a value that bisect_left puts at g in
\* 0..num_y as <<g>>
Guesses(num_y) == {<<>>} \cup {<<g>> : g \in 0..num_y}

\* a WorkerThread was made for an EyePlotBase with any oracle and started
InitColumn ==
    /\ IdleBackend
    /\ IdleThreads
    /\ search = "EyePlotBase"
    /\ \E num_t \in 1..MaxT, num_y \in 1..MaxY, is_pattern \in BOOLEAN :
       \E eye \in AnyEyes(num_t, num_y) :
       \E y_guess \in Guesses(num_y) :
          cfg = [num_t |-> num_t, num_y |-> num_y, is_pattern |-> is_pattern,
                 eye |-> eye, y_guess |-> y_guess] @@ EyeConfig
    /\ pc = "run"
    /\ loc = NoLocals
    /\ InitHardware

NextColumn ==
    \/ EyePlotBase_run
    \/ read_error
    \/ bin_search_eye_edge
    \/ flood_search_eye_edge

SpecColumn == InitColumn /\ [][NextColumn]_vars

\* C31: within one column no offset index is probed more than once, whatever
\* the oracle returns: every probe of a column is at an index of 0..N-1, the
\* guess, the flood search and the binary searches probe no index twice, and
\* a column costs at most N probes
C31_ProbedOnce ==
    search = "EyePlotBase" =>
        \A t_idx \in 0..(cfg.num_t - 1) :
            /\ \A i \in Probes(t_idx) :
                  \E y_idx \in 0..(cfg.num_y - 1) : hw_log[i].offset = YVal(y_idx)
            /\ \A y_idx \in 0..(cfg.num_y - 1) : Cardinality(ProbesAt(t_idx, y_idx)) <= 1
            /\ Cardinality(Probes(t_idx)) <= cfg.num_y

\* a column of four indices whose error-free offsets are not an interval was
\* swept from a guess outside them by a flood search and a binary search
C31_Witness ==
    /\ ColumnDone(0)
    /\ cfg.num_y = 4
    /\ cfg.eye[1] = {0, 2}
    /\ ColumnGuess(0) = 3
    /\ Cardinality(Probes(0)) = 3
    /\ loc.bot_edge_idx = 2 /\ loc.top_edge_idx = 2


\* the error-free offsets of column t_idx are one non-empty interval a..b
IntervalColumn(t_idx, a, b) ==
    /\ a <= b
    /\ cfg.eye[t_idx + 1] = a..b

\* C32: on a column whose oracle reads zero errors exactly on one non-empty
\* interval a..b of 0..N-1, the sweep ends with bottom edge a and top edge b
\* for every guess, inside the interval (two binary searches) or outside it
\* (a flood search that finds an edge, then one binary search)
C32_EdgesOfInterval ==
    (search = "EyePlotBase" /\ loc.t_idx < cfg.num_t) =>
        \A a, b \in 0..(cfg.num_y - 1) :
            IntervalColumn(loc.t_idx, a, b) =>
                /\ pc = "run_152" => loc.edge_idx \in {a, b}
                /\ pc = "run_184" => loc.bot_edge_idx = a /\ loc.top_edge_idx = b

\* a column of four indices with the eye at 2..3 was swept from guess 0: the
\* flood search found the bottom edge and the binary search the top edge
C32_Witness ==
    /\ search = "EyePlotBase"
    /\ pc = "run_184"
    /\ loc.t_idx = 0
    /\ cfg.num_y = 4
    /\ IntervalColumn(0, 2, 3)
    /\ ColumnGuess(0) = 0
    /\ loc.ret = "run_144"
    /\ loc.bot_edge_idx = 2 /\ loc.top_edge_idx = 3


\* the messages sent for offset index y_idx of column t_idx
MsgsAt(t_idx, y_idx) ==
    {i \in 1..Len(sent) : sent[i].t_idx = t_idx /\ sent[i].y_idx = y_idx}

\* the value the last message for offset index y_idx of column t_idx carries
LastVal(t_idx, y_idx) ==
    LET last_i == CHOOSE i \in MsgsAt(t_idx, y_idx) :
                      \A j \in MsgsAt(t_idx, y_idx) : j <= i
    IN sent[last_i].val

\* C33: in every completed column the last message streamed for each index
\* the oracle probed carries the result read_error returned for it, never
\* the max-error sentinel and never the error-free fill value
C33_ProbedKeepsResult ==
    \A t_idx \in 0..(MaxT - 1), y_idx \in 0..(MaxY - 1) :
        (ColumnDone(t_idx) /\ ProbesAt(t_idx, y_idx) # {}) =>
            /\ LastVal(t_idx, y_idx).ber = "ber"
            /\ LastVal(t_idx, y_idx) \notin {MaxErrVal, IdealVal}


\* the sweep has just ended column t_idx with edges found: the fill loops
\* have run and the locals still hold the column's edges
ColumnEnded(t_idx) ==
    /\ search = "EyePlotBase"
    /\ pc = "run_123"
    /\ loc.t_idx = t_idx + 1
    /\ loc.edge_idx >= 0

\* C34: when a column ends with edges (bot, top), every index of 0..N-1 has
\* a last value that is no marker: an unprobed index below bot or above top
\* has the max-error sentinel, an index strictly between bot and top has
\* zero errors, and bot and top have the zero-error results of their probes
C34_ColumnFilled ==
    \A t_idx \in 0..(MaxT - 1) :
        ColumnEnded(t_idx) =>
            LET bot == loc.bot_edge_idx
                top == loc.top_edge_idx
            IN \A y_idx \in 0..(cfg.num_y - 1) :
                  /\ MsgsAt(t_idx, y_idx) # {}
                  /\ LastVal(t_idx, y_idx).cnt # -1
                  /\ ((y_idx < bot \/ y_idx > top) /\ ProbesAt(t_idx, y_idx) = {}) =>
                        LastVal(t_idx, y_idx) = [ber |-> "max_ber", cnt |-> cfg.nbits_meas,
                                                 bits |-> cfg.nbits_meas]
                  /\ (bot < y_idx /\ y_idx < top) => LastVal(t_idx, y_idx).cnt = 0
                  /\ y_idx \in {bot, top} =>
                        /\ ProbesAt(t_idx, y_idx) # {}
                        /\ LastVal(t_idx, y_idx).ber = "ber"
                        /\ LastVal(t_idx, y_idx).cnt = 0

\* a column of four indices whose oracle reads zero errors at 2..3 only was
\* swept from guess 3: the binary search probed 1 and 2, index 0 was never
\* probed and ends as the sentinel, the edges 2 and 3 keep their results
C34_Witness ==
    /\ ColumnEnded(0)
    /\ cfg.num_y = 4
    /\ cfg.eye[1] = 2..3
    /\ ColumnGuess(0) = 3
    /\ loc.bot_edge_idx = 2 /\ loc.top_edge_idx = 3
    /\ ProbesAt(0, 0) = {}
    /\ LastVal(0, 0).cnt = cfg.nbits_meas
    /\ LastVal(0, 1).ber = "ber"
    /\ LastVal(0, 2).cnt = 0


\* the sweep of column t_idx has sent its first message
ColumnStarted(t_idx) == \E i \in 1..Len(sent) : sent[i].t_idx = t_idx

\* C35: the guess a column is swept from is always an index of 0..N-1: the
\* first guess is the seed clamped to 0..N-1 (N // 2 when none is given),
\* after a column with edges (bot, top) the next guess is (bot + top) // 2,
\* and after a column with no eye the guess is carried over unchanged
C35_GuessInRange ==
    search = "EyePlotBase" =>
        /\ \A t_idx \in 0..(cfg.num_t - 1) :
              ColumnStarted(t_idx) => ColumnGuess(t_idx) \in 0..(cfg.num_y - 1)
        /\ (loc.t_idx < cfg.num_t /\ ColumnStarted(loc.t_idx)) =>
              ColumnGuess(loc.t_idx) = loc.guess_idx
        /\ ColumnStarted(0) =>
              ColumnGuess(0) =
                  IF cfg.y_guess = <<>> THEN cfg.num_y \div 2
                  ELSE IF cfg.y_guess[1] > cfg.num_y - 1 THEN cfg.num_y - 1
                  ELSE cfg.y_guess[1]
        /\ \A t_idx \in 0..(cfg.num_t - 1) :
              (pc = "run_123" /\ loc.t_idx = t_idx + 1) =>
                  loc.guess_idx =
                      IF loc.edge_idx >= 0
                      THEN (loc.bot_edge_idx + loc.top_edge_idx) \div 2
                      ELSE ColumnGuess(t_idx)

\* the seed 4 of a column of four indices was clamped to 3, the column was
\* swept with edges (2, 3), and the next column started from guess 2
C35_Witness ==
    /\ search = "EyePlotBase"
    /\ cfg.num_y = 4
    /\ cfg.y_guess = <<4>>
    /\ loc.t_idx = 1
    /\ ColumnStarted(1)
    /\ ColumnGuess(0) = 3
    /\ loc.bot_edge_idx = 2 /\ loc.top_edge_idx = 3
    /\ ColumnGuess(1) = 2


(***************************************************************************)
(* BinaryIterator (util/search.py) on its own: a client that constructs a   *)
(* bounded iterator and follows every get_next() by one up() or down().     *)
(***************************************************************************)

\* the widest range high - low and the largest step an iterator is made with
MaxSpan == 7
MaxStep == 3

\* the arguments of BinaryIterator(low, high, step)
IterArgs ==
    {<<low, high, step>> : low \in -1..1, high \in -2..MaxSpan, step \in 1..MaxStep}

IterUnchanged ==
    UNCHANGED <<backend, fpga_vars, scan_vars, last, thread_at, search, cfg, stop,
                hw_delay, hw_offset, hw_log, sent, checked, unchecked_calls,
                calls_after_stop>>

\* it = BinaryIterator(low, high, step)
BinaryIterator_init ==
    /\ backend = "none"
    /\ search = "none"
    /\ pc = "idle"
    /\ \E args \in IterArgs :
          /\ pc' = "iter"
          /\ loc' = [low |-> args[1], high |-> args[2], step |-> args[3],
                     bin_iter |-> BinaryIteratorInit(args[1], args[2], args[3]),
                     returned |-> <<>>]
    /\ IterUnchanged

\* while it.has_next(): it.get_next(); it.up()
BinaryIterator_up ==
    /\ pc = "iter"
    /\ has_next(loc.bin_iter)
    /\ pc' = pc
    /\ loc' = [loc EXCEPT !.returned = Append(@, get_next(loc.bin_iter)),
                          !.bin_iter = IterUp(@)]
    /\ IterUnchanged

\* while it.has_next(): it.get_next(); it.down()
BinaryIterator_down ==
    /\ pc = "iter"
    /\ has_next(loc.bin_iter)
    /\ pc' = pc
    /\ loc' = [loc EXCEPT !.returned = Append(@, get_next(loc.bin_iter)),
                          !.bin_iter = IterDown(@)]
    /\ IterUnchanged

InitIter ==
    /\ IdleBackend
    /\ IdleSearch
    /\ IdleThreads

NextIter ==
    \/ BinaryIterator_init
    \/ BinaryIterator_up
    \/ BinaryIterator_down

SpecIter == InitIter /\ [][NextIter]_vars

\* the least k with 2^k >= m
RECURSIVE CeilLog2(_)
CeilLog2(m) == IF m <= 1 THEN 0 ELSE 1 + CeilLog2((m + 1) \div 2)

\* C36: for a bounded BinaryIterator(low, high, step) with step >= 1 whose
\* get_next() is each followed by one up() or down(), every value returned
\* has the form low + k * step with low <= value < high, no value is returned
\* twice, has_next() is false after at most ceil(log2(n + 1)) steps where
\* n = ceil((high - low) / step), and when high <= low has_next() is false
\* from the start
C36_IteratorBounded ==
    pc = "iter" =>
        LET r == loc.returned
            n == IF loc.high > loc.low
                 THEN (loc.high - loc.low + loc.step - 1) \div loc.step
                 ELSE 0
        IN /\ \A i \in 1..Len(r) :
                 /\ \E k \in 0..n : r[i] = loc.low + k * loc.step
                 /\ loc.low <= r[i] /\ r[i] < loc.high
           /\ \A i, j \in 1..Len(r) : i # j => r[i] # r[j]
           /\ Len(r) <= CeilLog2(n + 1)
           /\ Len(r) = CeilLog2(n + 1) => ~has_next(loc.bin_iter)
           /\ loc.high <= loc.low => ~has_next(loc.bin_iter)

\* BinaryIterator(0, 7, 3) has n = 3 values: it returned 3 and 6, each
\* followed by up(), and is finished after ceil(log2(4)) = 2 steps
C36_Witness ==
    /\ pc = "iter"
    /\ loc.low = 0 /\ loc.high = 7 /\ loc.step = 3
    /\ loc.returned = <<3, 6>>
    /\ ~has_next(loc.bin_iter)


\* the width of the interval find_edge works on
Width(l) == CurIntv(l)[2] - CurIntv(l)[1]

\* C37: find_edge terminates for every sequence of oracle outputs in
\* {-1, 0, 1}: every eval_y at the midpoint of an interval wider than 1
\* leaves the interval strictly narrower, so the loop ends, and it ends with
\* an interval of width 1
C37_FindEdgeTerminates ==
    /\ [][(/\ search = "TracePlotBase"
           /\ pc = "ev_110" /\ pc' = "fe_131"
           /\ Width(loc) > 1
           /\ loc.y_idx = (CurIntv(loc)[2] + CurIntv(loc)[1]) \div 2)
          => Width(loc') < Width(loc)]_vars
    /\ [][(/\ search = "TracePlotBase"
           /\ pc \in {"fe_123", "fe_131"}
           /\ pc' \in {"fe_123", "run_159"}
           /\ loc' # loc)
          => Width(loc) = 1]_vars


(***************************************************************************)
(* ScanControlFrame (gui/base/frames.py): a frame with a spin box and a     *)
(* line edit on ctrl.gain and a check box on ctrl.en.  The frame registers  *)
(* scanChainChanged.emit as a callback of the registry and connects the     *)
(* signal to _update_from_scan; the widgets' change signals are connected   *)
(* to _update_scan.  Signals are delivered at once (one thread).  The       *)
(* widgets are in loc, the spin box's range in cfg.  The transport answers  *)
(* with a list of the right length and no consistency check is asked for.   *)
(***************************************************************************)

\* the most slots of the frame that run inside one another before Python
\* refuses a new frame
MaxNesting == 4

\* create_controls: the range of the spin box, (1 << num_bits) - 1 without a
\* characterization file and the file's bounds with one; the default 0 of
\* the bus has to lie inside
SpinRanges ==
    LET top == 2^chain_blen["ctrl"]["gain"] - 1
    IN {[spin_min |-> 0, spin_max |-> hi] : hi \in 1..top}

\* QSpinBox.setValue: the value is brought into the box's range
SetValue(val, lo, hi) == IF val < lo THEN lo ELSE IF val > hi THEN hi ELSE val

\* check_state = Checked if scan_val == 1 else Unchecked
CheckState(scan_val) == IF scan_val = 1 THEN "Checked" ELSE "Unchecked"

\* a call the frame makes on the registry
FrameCall(call, chain_name, bus_name, value) ==
    [call |-> call, chain |-> chain_name, bus |-> bus_name, value |-> value]

RECURSIVE update_from_scan(_, _, _, _)

\* fpga.update_scan(chain_name): the registry takes the values read back,
\* the callback emits scanChainChanged and _update_from_scan runs
FrameUpdateScan(st, fake, chain_name, depth) ==
    LET value == ValueList(st.chain_value, chain_name)
        returns == IF fake THEN {value}
                   ELSE {r \in TransportReturns(chain_name, value) : Len(r) = Len(value)}
        after(returned) ==
            LET u == UpdateScan(st.chain_value, <<"scanChainChanged.emit">>, fake, FALSE,
                                chain_name, FALSE, returned, 0)
            IN [st EXCEPT !.chain_value = u.chain_value,
                          !.calls = Append(@, FrameCall("update_scan", chain_name, "", 0))]
    IN UNION {update_from_scan(after(returned), fake, chain_name, depth + 1) :
                returned \in returns}

\* _update_scan(val) and _update_scan_le, lines 604-627, for the widget of
\* ctrl.bus_name: the registry is written and shifted out if it differs
SlotUpdateScan(st, fake, bus_name, val, depth) ==
    IF st.chain_value["ctrl"][bus_name] = val THEN {st}
    ELSE LET s == SetScan(st.chain_value, "ctrl", bus_name, val)
             st1 == [st EXCEPT !.chain_value = s.chain_value,
                               !.outcome = s.outcome,
                               !.calls = Append(@, FrameCall("set_scan", "ctrl", bus_name, val))]
         IN IF s.outcome # "ok" THEN {st1} ELSE FrameUpdateScan(st1, fake, "ctrl", depth)

\* _update_from_scan(chain_name), lines 564-596: the spin boxes, then the
\* line edits, then the check boxes of the chain.  setValue and
\* setCheckState emit the widget's change signal when the widget's value
\* changes, setText emits no editingFinished.
update_from_scan(st, fake, chain_name, depth) ==
    LET s0 == [st EXCEPT !.handled = Append(@, chain_name)]
        SpinBoxes(s) ==
            LET new_value == s.chain_value["ctrl"]["gain"]
                shown == SetValue(new_value, cfg.spin_min, cfg.spin_max)
            IN IF s.spin = new_value \/ shown = s.spin THEN {s}
               ELSE SlotUpdateScan([s EXCEPT !.spin = shown], fake, "gain", shown, depth)
        LineEdits(s) ==
            [s EXCEPT !.text = binary_repr(s.chain_value["ctrl"]["gain"],
                                           chain_blen["ctrl"]["gain"])]
        CheckBoxes(s) ==
            LET new_state == CheckState(s.chain_value["ctrl"]["en"])
            IN IF s.check = new_state THEN {s}
               ELSE SlotUpdateScan([s EXCEPT !.check = new_state], fake, "en",
                                   IF new_state = "Checked" THEN 1 ELSE 0, depth)
    IN IF depth > MaxNesting THEN {[s0 EXCEPT !.outcome = "RecursionError"]}
       ELSE IF chain_name # "ctrl" THEN {s0}
       ELSE UNION {IF s1.outcome # "ok" THEN {s1} ELSE CheckBoxes(LineEdits(s1)) :
                      s1 \in SpinBoxes(s0)}

\* the frame and the registry before a call
FrameState ==
    [chain_value |-> chain_value, spin |-> loc.spin, text |-> loc.text,
     check |-> loc.check, calls |-> <<>>, handled |-> <<>>, outcome |-> "ok"]

\* the frame and the registry after a call that ended in st; the calls the
\* frame made and the notifications it handled are kept for update_scan
FrameStep(op, chain_name, bus_name, value, st) ==
    /\ chain_value' = st.chain_value
    /\ loc' = [spin |-> st.spin, text |-> st.text, check |-> st.check]
    /\ last' = [NoCall EXCEPT !.op = op, !.chain = chain_name, !.bus = bus_name,
                              !.value = value, !.outcome = st.outcome,
                              !.output = IF op = "update_scan" THEN st.calls ELSE <<>>,
                              !.notified = IF op = "update_scan" THEN st.handled ELSE <<>>]
    /\ UNCHANGED <<backend, fake_scan, check_scan, callbacks, scan_vars, thread_at,
                   search, cfg, stop, pc, hw_delay, hw_offset, hw_log, sent,
                   checked, unchecked_calls, calls_after_stop>>

\* a client other than the frame calls fpga.update_scan(chain_name) and the
\* frame handles the notification
ScanControlFrame_update_from_scan ==
    /\ backend = "ScanControlFrame"
    /\ \E chain_name \in ChainNames :
       \E st \in FrameUpdateScan(FrameState, fake_scan, chain_name, 0) :
          FrameStep("update_scan", chain_name, "", 0, st)

\* the user changes the spin box or the check box: valueChanged[int] and
\* stateChanged[int] are connected to _update_scan
ScanControlFrame_update_scan ==
    /\ backend = "ScanControlFrame"
    /\ \/ \E val \in (cfg.spin_min..cfg.spin_max) \ {loc.spin} :
          \E st \in SlotUpdateScan([FrameState EXCEPT !.spin = val], fake_scan,
                                   "gain", val, 0) :
             FrameStep("_update_scan", "ctrl", "gain", val, st)
       \/ \E state \in {"Checked", "Unchecked"} \ {loc.check} :
          \E val \in {IF state = "Checked" THEN 1 ELSE 0} :
          \E st \in SlotUpdateScan([FrameState EXCEPT !.check = state], fake_scan,
                                   "en", val, 0) :
             FrameStep("_update_scan", "ctrl", "en", val, st)

\* the user finishes editing the line edit: val = int(send_obj.text(), 2)
ScanControlFrame_update_scan_le ==
    /\ backend = "ScanControlFrame"
    /\ \E val \in 0..(2^chain_blen["ctrl"]["gain"] - 1) :
       \E text \in {binary_repr(val, chain_blen["ctrl"]["gain"])} :
       \E st \in SlotUpdateScan([FrameState EXCEPT !.text = text], fake_scan,
                                "gain", int2(text), 0) :
          FrameStep("_update_scan_le", "ctrl", "gain", val, st)

\* a client other than the frame writes a legal value into the registry
\* (a file is loaded, another frame is used)
ScanControlFrame_set_scan ==
    /\ backend = "ScanControlFrame"
    /\ \E bus_name \in BusNames("ctrl") :
       \E value \in 0..(2^chain_blen["ctrl"][bus_name] - 1) :
       \E st \in {[FrameState EXCEPT
                     !.chain_value = SetScan(chain_value, "ctrl", bus_name, value).chain_value]} :
          FrameStep("set_scan", "ctrl", bus_name, value, st)

\* ScanControlFrame.__init__ and create_controls on a new registry
InitFrame ==
    /\ backend = "ScanControlFrame"
    /\ fake_scan \in BOOLEAN
    /\ check_scan = FALSE
    /\ chain_value = DefaultValue
    /\ callbacks = <<"scanChainChanged.emit">>
    /\ scan_file = ScanFile
    /\ has_fpga = FALSE
    /\ read_pre_bytes = 0
    /\ read_post_bytes = 0
    /\ scan_value = ScanDefaults(ScanFile)
    /\ pre_data = <<>>
    /\ post_data = <<>>
    /\ scan_callbacks = <<>>
    /\ last = NoCall
    /\ IdleThreads
    /\ search = "none"
    /\ cfg \in SpinRanges
    /\ stop = FALSE
    /\ pc = "idle"
    /\ loc = [spin |-> SetValue(DefaultValue["ctrl"]["gain"], cfg.spin_min, cfg.spin_max),
              text |-> binary_repr(DefaultValue["ctrl"]["gain"], chain_blen["ctrl"]["gain"]),
              check |-> CheckState(DefaultValue["ctrl"]["en"])]
    /\ hw_delay = 0
    /\ hw_offset = 0
    /\ hw_log = <<>>
    /\ sent = <<>>
    /\ checked = FALSE
    /\ unchecked_calls = 0
    /\ calls_after_stop = 0

NextFrame ==
    \/ ScanControlFrame_update_from_scan
    \/ ScanControlFrame_update_scan
    \/ ScanControlFrame_update_scan_le
    \/ ScanControlFrame_set_scan

SpecFrame == InitFrame /\ [][NextFrame]_vars

\* C38: handling a change notification in _update_from_scan never leads to
\* a further set_scan or update_scan, whatever the registry holds after the
\* readback: an update_scan made by a client other than the frame is
\* followed by exactly one notification of the frame and by no call of the
\* frame on the registry
C38_NoFeedback ==
    (backend = "ScanControlFrame" /\ last.op = "update_scan") =>
        /\ last.outcome = "ok"
        /\ last.output = <<FrameCall("update_scan", last.chain, "", 0)>>
        /\ last.notified = <<last.chain>>


\* C39: when Scan.write_twice fails, by a transport error or by a body of
\* the wrong length, no queryable state has changed: the field values and
\* the arrays get_pre_bytes_data() and get_post_bytes_data() return are
\* those of before the call
C39_FailedWriteKeepsState ==
    [][(last'.op = "write_twice" /\ last'.outcome \in {"TransportError", "LengthError"})
         => /\ scan_value' = scan_value
            /\ pre_data' = pre_data
            /\ post_data' = post_data]_vars


(***************************************************************************)
(* FPGABase.save_scan_to_file and set_scan_from_file on the file it wrote.  *)
(* The file's document is kept in loc.doc, a dict from top-level keys to    *)
(* values, with the registry at the time of the save in loc.saved_from;     *)
(* pc is "saved" once a file exists.  scan_content is written as the list   *)
(* of the chains with their values, in the order yaml.dump gives the keys.  *)
(***************************************************************************)
\* yaml.dump of self._chain_value: the chains and their buses, keys sorted
DumpContent(cv) ==
    LET chains == <<"ctrl", "pins">>
        values(c) == [i \in 1..Len(chain_order[c]) |->
                         <<chain_order[c][i], cv[c][chain_order[c][i]]>>]
    IN [k \in 1..Len(chains) |-> <<chains[k], values(chains[k])>>]

\* **kwargs of save_scan_to_file: none, the attribute the frames pass, or an
\* attribute with the name scan_content
KwArgs ==
    {<<>>, [rx_gui |-> "attrs"]}
        \cup {[scan_content |-> <<<<"ctrl", <<<<bus_name, 1>>>>>>>>] :
                bus_name \in BusNames("ctrl")}

\* lines 356-358: save_val = dict(scan_content=self._chain_value), then
\* save_val.update(kwargs)
SaveVal(cv, kwargs) ==
    LET save_val == [k \in {"scan_content"} |-> DumpContent(cv)]
    IN IF DOMAIN kwargs # {}
       THEN [k \in DOMAIN save_val \cup DOMAIN kwargs |->
                IF k \in DOMAIN kwargs THEN kwargs[k] ELSE save_val[k]]
       ELSE save_val

SaveUnchanged ==
    UNCHANGED <<backend, fake_scan, check_scan, callbacks, scan_vars, thread_at,
                search, cfg, stop, hw_delay, hw_offset, hw_log, sent, checked,
                unchecked_calls, calls_after_stop>>

\* FPGABase.save_scan_to_file(fname, **kwargs), fname no directory
save_scan_to_file ==
    /\ backend = "FPGABase"
    /\ \E kwargs \in KwArgs :
         /\ loc' = [doc |-> SaveVal(chain_value, kwargs), saved_from |-> chain_value]
         /\ last' = [NoCall EXCEPT !.op = "save_scan_to_file", !.before = chain_value]
    /\ pc' = "saved"
    /\ UNCHANGED chain_value
    /\ SaveUnchanged

\* FPGABase.set_scan_from_file(fname) on the file save_scan_to_file wrote
set_scan_from_saved_file ==
    /\ backend = "FPGABase"
    /\ pc = "saved"
    /\ \E scan_dict \in {loc.doc["scan_content"]} :
       \E r \in SetScanFromFile([chain_value |-> chain_value, outcome |-> "ok",
                                 calls |-> <<>>, io |-> <<>>, notified |-> <<>>,
                                 changed |-> FALSE],
                                callbacks, fake_scan, check_scan, scan_dict) :
         /\ chain_value' = r.chain_value
         /\ last' = [NoCall EXCEPT !.op = "set_scan_from_file", !.sent = scan_dict,
                        !.outcome = r.outcome, !.before = chain_value,
                        !.output = r.calls, !.io = r.io, !.notified = r.notified]
    /\ UNCHANGED <<pc, loc>>
    /\ SaveUnchanged

NextSave ==
    \/ set_scan
    \/ add_callback
    \/ save_scan_to_file
    \/ set_scan_from_saved_file

SpecSave == InitFPGABase /\ [][NextSave]_vars

\* C40: save then load is a no-op.  The scan_content of the saved document
\* is the registry's values at the time of the save, for any attributes
\* passed to save_scan_to_file; and set_scan_from_file on that file, with
\* the registry as it was at the save, calls no set_scan and no update_scan,
\* invokes no callback and leaves every value unchanged
C40_SaveLoadNoOp ==
    (backend = "FPGABase" /\ pc = "saved") =>
        /\ loc.doc["scan_content"] = DumpContent(loc.saved_from)
        /\ (last.op = "set_scan_from_file" /\ last.before = loc.saved_from) =>
              /\ last.outcome = "ok"
              /\ last.output = <<>>
              /\ last.io = <<>>
              /\ last.notified = <<>>
              /\ chain_value = last.before

====
